---------------------------- MODULE Spec2Model ----------------------------
(***************************************************************************)
(* A model of cogwheel's sky-location marginalization engine,              *)
(* likelihood/marginalization/skydict.py (class SkyDictionary).            *)
(*                                                                         *)
(* Time is rational: a delay is an integer number of 1/TimeDen seconds.    *)
(* A sky sample (lat, lon) is one of a finite set of sky directions; the   *)
(* detector-geometry provider (gw_utils, outside this file) is a table of  *)
(* geocenter delays and antenna coefficients per detector and direction.   *)
(* numpy arrays are functions over index tuples; numpy's index             *)
(* normalisation (negative indices wrap once, anything else raises         *)
(* IndexError) is modelled as numpy performs it.                           *)
(***************************************************************************)
EXTENDS Integers, Sequences, FiniteSets, TLC

VARIABLES
    self,       \* the SkyDictionary instance: its attributes
    call,       \* the latest get_sky_inds_and_prior call: argument, returns
    n_next,     \* per populated key: indices handed out so far, mod bucket size
    twin,       \* a second instance built from the same arguments
    twin_call,  \* the latest call on the second instance
    resample,   \* the latest resample_timeseries call: arguments, outcome
    workers,    \* the threads inside get_sky_inds_and_prior: their locals
    prior_mod   \* the prior module: classes defined, prior_registry, transforms

vars == <<self, call, n_next, twin, twin_call, resample, workers, prior_mod>>

---------------------------------------------------------------------------
(* Bounds of the model *)

MaxNSky == 3
MaxQueryEntries == 3
MaxSeed == 26
MaxEntropy == 2

---------------------------------------------------------------------------
(* Generic helpers *)

None == <<>>
Some(x) == <<x>>

Range(s) == {s[i] : i \in DOMAIN s}

RECURSIVE Pow(_, _)
Pow(b, e) == IF e = 0 THEN 1 ELSE b * Pow(b, e - 1)

RECURSIVE SumSeq(_)
SumSeq(s) == IF s = <<>> THEN 0 ELSE Head(s) + SumSeq(Tail(s))

MinOf(S) == CHOOSE x \in S : \A y \in S : x <= y
MaxOf(S) == CHOOSE x \in S : \A y \in S : x >= y

\* All tuples of length n over the set S.
RECURSIVE Tuples(_, _)
Tuples(S, n) ==
    IF n = 0 THEN {<<>>}
    ELSE {Append(t, x) : t \in Tuples(S, n - 1), x \in S}

\* Floor of the square root (exact on perfect squares).
Sqrt(n) == CHOOSE r \in 0..n : r * r <= n /\ n < (r + 1) * (r + 1)

\* The sum of f over the finite set S.
RECURSIVE SumOver(_, _)
SumOver(S, f) ==
    IF S = {} THEN 0
    ELSE LET x == CHOOSE y \in S : TRUE
         IN  f[x] + SumOver(S \ {x}, f)

\* A rational is a pair <<numerator, denominator>> with denominator > 0.
RatAdd(p, q) == <<p[1] * q[2] + q[1] * p[2], p[2] * q[2]>>
\* The sum of the rationals f[x], x in the finite set S.
RECURSIVE RatSumOver(_, _)
RatSumOver(S, f) ==
    IF S = {} THEN <<0, 1>>
    ELSE LET x == CHOOSE y \in S : TRUE
         IN  RatAdd(f[x], RatSumOver(S \ {x}, f))
RatEq(p, q) == p[1] * q[2] = q[1] * p[2]
\* Mutant of RatPos: >= in place of >.
RatNonNegative(p) == p[1] * p[2] >= 0
RatPos(p) == p[1] * p[2] > 0

---------------------------------------------------------------------------
(* The detector-geometry provider and the quasi-random sampler             *)

TimeDen == 2

AllDetectors == <<"H", "L", "V">>
DetectorNetworks == {SubSeq(AllDetectors, 1, n) : n \in 1..Len(AllDetectors)}
FSamplings == {1, 2}

\* gw_utils.get_geocenter_delays: delay (in 1/TimeDen s) per detector and
\* sky direction.
GeocenterDelayTable ==
    [H |-> <<1, 0, -1>>, L |-> <<0, 0, 0>>, V |-> <<2, -1, -1>>]

\* gw_utils.get_fplus_fcross_0: (F+, Fx) per detector and sky direction.
FplusFcross0Table ==
    [H |-> << <<3, 0>>, <<0, 0>>, <<0, 4>> >>,
     L |-> << <<0, 4>>, <<3, 0>>, <<0, 0>> >>,
     V |-> << <<0, 0>>, <<4, 0>>, <<3, 0>> >>]

NDirections == Len(GeocenterDelayTable.H)
Directions == 1..NDirections

\* (n_det, nsky) array of geocenter delays; samples are indexed from 0.
get_geocenter_delays(detector_names, sky_samples) ==
    [d \in 1..Len(detector_names) |->
        [i \in DOMAIN sky_samples |->
            GeocenterDelayTable[detector_names[d]][sky_samples[i]]]]

\* (nsky, n_det, 2) array of antenna coefficients.
get_fplus_fcross_0(detector_names, sky_samples) ==
    [i \in DOMAIN sky_samples |->
        [d \in 1..Len(detector_names) |->
            FplusFcross0Table[detector_names[d]][sky_samples[i]]]]

\* np.random.default_rng(seed): an integer seed fixes the generator's
\* state; None seeds it from fresh operating-system entropy.
default_rng(seed, entropy) == IF seed = None THEN entropy ELSE seed[1]

\* qmc.Halton(2, seed=rng).random(nsky): a sequence of nsky points that is
\* a function of the generator's state. Point i is the i-th base-NDirections
\* digit of the state, so distinct states below NDirections^nsky give
\* distinct populations and every population is drawn by some state.
HaltonPoint(rng, i) == ((rng \div Pow(NDirections, i)) % NDirections) + 1

_create_sky_samples(rng, nsky) ==
    [i \in 0..(nsky - 1) |-> HaltonPoint(rng, i)]

---------------------------------------------------------------------------
(* Discretization and the delay index                                      *)

\* np.rint of the rational n/d (d > 0): nearest integer, halves to even.
RInt(n, d) ==
    LET fl == n \div d
        rem == n % d
    IN  IF 2 * rem < d THEN fl
        ELSE IF 2 * rem > d THEN fl + 1
        ELSE IF fl % 2 = 0 THEN fl ELSE fl + 1

\* SkyDictionary._discretize: delay t (in 1/TimeDen s) in units of
\* 1/f_sampling.
_discretize(t, f_sampling) == RInt(t * f_sampling, TimeDen)

\* One column of a (rows, nsky) delay array, discretized: sample i's tuple.
DiscreteColumn(rows, f_sampling, i) ==
    [d \in DOMAIN rows |-> _discretize(rows[d][i], f_sampling)]

\* Mutant of AppendSamples: a sample replaces the list of its key.
RECURSIVE OverwriteSamples(_, _, _, _)
OverwriteSamples(map, keys, i, nsky) ==
    IF i >= nsky THEN map
    ELSE OverwriteSamples([x \in (DOMAIN map) \cup {keys[i]} |->
                              IF x = keys[i] THEN <<i>> ELSE map[x]],
                          keys, i + 1, nsky)

\* The loop of _create_delays2inds_map over samples i, i+1, ..., nsky - 1:
\* append each sample's index to the list of its key.
RECURSIVE AppendSamples(_, _, _, _)
AppendSamples(map, keys, i, nsky) ==
    IF i >= nsky THEN map
    ELSE LET k == keys[i]
             old == IF k \in DOMAIN map THEN map[k] ELSE <<>>
             new == [x \in (DOMAIN map) \cup {k} |->
                        IF x = k THEN Append(old, i) ELSE map[x]]
         IN  AppendSamples(new, keys, i + 1, nsky)

\* SkyDictionary._create_delays2inds_map. With one detector the delays
\* array has no rows, zip() yields nothing and the map stays empty.
_create_delays2inds_map(delays, f_sampling, nsky) ==
    IF DOMAIN delays = {} THEN <<>>
    ELSE LET keys == [i \in 0..(nsky - 1) |->
                         DiscreteColumn(delays, f_sampling, i)]
         IN  AppendSamples(<<>>, keys, 0, nsky)

\* The keys of a delay index in dict (insertion) order: a key is inserted
\* when its first sample is met.
RECURSIVE KeysInOrder(_, _)
KeysInOrder(map, todo) ==
    IF todo = {} THEN <<>>
    ELSE LET k == CHOOSE x \in todo : \A y \in todo : map[x][1] <= map[y][1]
         IN  <<k>> \o KeysInOrder(map, todo \ {k})

\* np.min / np.max of the keys along axis 0.
KeysMin(map, n_dim) == [d \in 1..n_dim |-> MinOf({k[d] : k \in DOMAIN map})]
KeysMax(map, n_dim) == [d \in 1..n_dim |-> MaxOf({k[d] : k \in DOMAIN map})]

---------------------------------------------------------------------------
(* numpy indexing and the dense arrays                                     *)

\* numpy's normalisation of index k into an axis of length n: k itself when
\* 0 <= k < n, k + n when -n <= k < 0, otherwise IndexError (here -1).
NormIndex(k, n) ==
    IF 0 <= k /\ k < n THEN k
    ELSE IF -n <= k /\ k < 0 THEN k + n
    ELSE -1

\* The cell a key addresses in an array of the given shape.
Cell(key, shape) == [d \in DOMAIN key |-> NormIndex(key[d], shape[d])]
CellOk(key, shape) == \A d \in DOMAIN key : NormIndex(key[d], shape[d]) >= 0

\* All index tuples of an array of the given shape.
RECURSIVE CellsFrom(_, _)
CellsFrom(shape, d) ==
    IF d = 0 THEN {<<>>}
    ELSE {Append(c, x) : c \in CellsFrom(shape, d - 1),
                         x \in 0..(shape[d] - 1)}
Cells(shape) == CellsFrom(shape, Len(shape))

\* np.full(shape, v) / np.zeros(shape).
Full(shape, v) == [c \in Cells(shape) |-> v]

\* iter(()): the exhausted iterator that np.full puts in every cell.
EmptyIter == [inds |-> <<>>, pos |-> 0]
\* Mutant of Cycle: itertools.cycle(reversed(inds)).
CycleReversed(inds) ==
    [inds |-> [i \in DOMAIN inds |-> inds[Len(inds) + 1 - i]], pos |-> 0]
\* itertools.cycle(inds): nothing consumed yet.
Cycle(inds) == [inds |-> inds, pos |-> 0]

\* next(g) on a generator: the value it yields (-1: StopIteration) and the
\* generator afterwards. A cycle yields its list in order, then again.
\* Mutant of NextValue: the cursor is advanced before the list is read.
NextValueAfterAdvance(g) ==
    IF g.inds = <<>> THEN -1 ELSE g.inds[((g.pos + 1) % Len(g.inds)) + 1]
NextValue(g) == IF g.inds = <<>> THEN -1 ELSE g.inds[g.pos + 1]
\* Mutant of NextState: the yielded item is removed from the list.
NextStateConsuming(g) ==
    IF g.inds = <<>> THEN g ELSE [g EXCEPT !.inds = Tail(g.inds)]
\* Mutant of NextState: the cursor runs backwards.
NextStateBackwards(g) ==
    IF g.inds = <<>> THEN g
    ELSE [g EXCEPT !.pos = (g.pos + Len(g.inds) - 1) % Len(g.inds)]

NextState(g) ==
    IF g.inds = <<>> THEN g
    ELSE [g EXCEPT !.pos = (g.pos + 1) % Len(g.inds)]

\* Mutant of PriorValue: the exponent is the number of detectors.
PriorValuePerDetector(f_sampling, n_det, inds, nsky) ==
    <<Pow(f_sampling, n_det) * Len(inds), nsky>>

\* Mutant of PriorValue: the bucket size is left out.
PriorValueUnweighted(f_sampling, n_det, inds, nsky) ==
    <<Pow(f_sampling, n_det - 1), nsky>>

\* The value the constructor stores in _sky_prior for a bucket:
\* f_sampling ** (n_det - 1) * len(inds) / nsky.
PriorValue(f_sampling, n_det, inds, nsky) ==
    <<Pow(f_sampling, n_det - 1) * Len(inds), nsky>>

\* Mutant of StoreGenerators: the cycle of a key is stored at the key's
\* offset from the minimum, while lookups index with the key itself.
RECURSIVE StoreGeneratorsAtOffset(_, _, _, _, _)
StoreGeneratorsAtOffset(arr, shape, map, keys, i) ==
    IF i > Len(keys) THEN [ok |-> TRUE, arr |-> arr]
    ELSE LET lo == KeysMin(map, Len(shape))
             c == [d \in DOMAIN shape |-> keys[i][d] - lo[d]]
         IN  StoreGeneratorsAtOffset(
                [arr EXCEPT ![c] = Cycle(map[keys[i]])],
                shape, map, keys, i + 1)

\* The loops `for key, inds in delays2inds_map.items(): arr[key] = val`:
\* keys[i..] are stored in dict order; ok turns FALSE at the first key that
\* numpy rejects, and the loop stops there.
RECURSIVE StoreGenerators(_, _, _, _, _)
StoreGenerators(arr, shape, map, keys, i) ==
    IF i > Len(keys) THEN [ok |-> TRUE, arr |-> arr]
    ELSE IF ~CellOk(keys[i], shape) THEN [ok |-> FALSE, arr |-> arr]
    ELSE StoreGenerators(
            [arr EXCEPT ![Cell(keys[i], shape)] = Cycle(map[keys[i]])],
            shape, map, keys, i + 1)

RECURSIVE StorePriors(_, _, _, _, _, _)
StorePriors(arr, shape, map, keys, i, args) ==
    IF i > Len(keys) THEN [ok |-> TRUE, arr |-> arr]
    ELSE IF ~CellOk(keys[i], shape) THEN [ok |-> FALSE, arr |-> arr]
    ELSE StorePriors(
            [arr EXCEPT ![Cell(keys[i], shape)] =
                PriorValue(args.f_sampling, Len(args.detector_names),
                           map[keys[i]], args.nsky)],
            shape, map, keys, i + 1, args)

---------------------------------------------------------------------------
(* The conditional delay-prior table                                       *)

\* Mutant of DetPermutations: itertools.combinations, the increasing
\* k-tuples only.
DetCombinations(n, k) ==
    {p \in Tuples(0..(n - 1), k) :
        \A a, b \in 1..k : a < b => p[a] < p[b]}

\* itertools.permutations(range(n), k): ordered k-tuples of distinct
\* detector indices 0..n-1.
DetPermutations(n, k) ==
    {p \in Tuples(0..(n - 1), k) :
        \A a, b \in 1..k : a # b => p[a] # p[b]}

\* Mutant of Weight: the square of the norm.
WeightSquared(coeffs) ==
    SumSeq([d \in DOMAIN coeffs |->
               coeffs[d][1] * coeffs[d][1] + coeffs[d][2] * coeffs[d][2]])

\* np.linalg.norm(fplus_fcross_0, axis=(1, 2)) ** 3 for one sample: the
\* norm runs over all detectors of the network and both polarizations.
Weight(coeffs) ==
    LET sq == SumSeq([d \in DOMAIN coeffs |->
                        coeffs[d][1] * coeffs[d][1]
                        + coeffs[d][2] * coeffs[d][2]])
    IN  Pow(Sqrt(sq), 3)

\* pairwise_delays for a detector order (0-based indices), per sample:
\* _discretize(geocenter_delays[order[1:],] - geocenter_delays[order[0]]).
PairwiseDelays(geocenter_delays, order, f_sampling, nsky) ==
    LET rows == [d \in 1..(Len(order) - 1) |->
                    [i \in 0..(nsky - 1) |->
                        geocenter_delays[order[d + 1] + 1][i]
                        - geocenter_delays[order[1] + 1][i]]]
    IN  [i \in 0..(nsky - 1) |-> DiscreteColumn(rows, f_sampling, i)]

\* Mutant of BinEdges2: np.arange(lo - 1, hi + 1) without the half-unit
\* offset, so that integer delays fall on bin edges.
BinEdgesOnIntegers2(lo, hi) == [j \in 1..(hi - lo + 2) |-> 2 * (lo - 1 + (j - 1))]

\* Twice the bin edges np.arange(lo - 1, hi + 1) + .5 of one dimension.
BinEdges2(lo, hi) == [j \in 1..(hi - lo + 2) |-> 2 * (lo - 1 + (j - 1)) + 1]

\* np.histogramdd's bin of value v among the edges (0-based; -1: outside).
\* Bins are half-open, the last one closed.
BinOf(v, edges2) ==
    LET n == Len(edges2) - 1
        hits == {j \in 1..n :
                    /\ edges2[j] <= 2 * v
                    /\ (2 * v < edges2[j + 1]
                        \/ (j = n /\ 2 * v = edges2[j + 1]))}
    IN  IF hits = {} THEN -1 ELSE MinOf(hits) - 1

\* np.histogramdd(pairwise_delays.T, weights=weights, bins=bins)[0].
Histogram(pd, weights, nsky) ==
    LET n_dim == Len(pd[0])
        lo == [d \in 1..n_dim |-> MinOf({pd[i][d] : i \in 0..(nsky - 1)})]
        hi == [d \in 1..n_dim |-> MaxOf({pd[i][d] : i \in 0..(nsky - 1)})]
        edges == [d \in 1..n_dim |-> BinEdges2(lo[d], hi[d])]
        shape == [d \in 1..n_dim |-> Len(edges[d]) - 1]
        bin(i) == [d \in 1..n_dim |-> BinOf(pd[i][d], edges[d])]
    IN  [c \in Cells(shape) |->
            SumSeq([j \in 1..nsky |->
                       IF bin(j - 1) = c THEN weights[j - 1] ELSE 0])]

\* Mutant of Bounds: the bounds of the magnitude of the delay.
BoundsOfMagnitudes(pd, nsky) ==
    <<MinOf({IF pd[i][1] < 0 THEN -pd[i][1] ELSE pd[i][1] :
                i \in 0..(nsky - 1)}),
      MaxOf({IF pd[i][1] < 0 THEN -pd[i][1] ELSE pd[i][1] :
                i \in 0..(nsky - 1)})>>

\* delays_bounds[order]: (pairwise_delays.min(), pairwise_delays.max()).
Bounds(pd, nsky) ==
    <<MinOf({pd[i][1] : i \in 0..(nsky - 1)}),
      MaxOf({pd[i][1] : i \in 0..(nsky - 1)})>>

AllOrders(n_det) == UNION {DetPermutations(n_det, k) : k \in 2..n_det}

---------------------------------------------------------------------------
(* SkyDictionary.__init__                                                  *)

\* The derived structures, in the order the constructor assigns them.
SamplingStructures ==
    {"sky_samples", "fplus_fcross_0", "geocenter_delay_first_det", "delays",
     "delays2inds_map"}
TableStructures ==
    {"_min_delay", "_max_delay", "delays_bounds", "delays_prior",
     "_ind_generators"}

\* The attributes a failed constructor has not reached hold None; built
\* names the derived structures it has assigned.
__init__(args, entropy) ==
    LET detector_names == args.detector_names
        n_det == Len(detector_names)
        nsky == args.nsky
        f_sampling == args.f_sampling
        rng == default_rng(args.seed, entropy)
        sky_samples == _create_sky_samples(rng, nsky)
        fplus_fcross_0 == get_fplus_fcross_0(detector_names, sky_samples)
        geocenter_delays == get_geocenter_delays(detector_names, sky_samples)
        delays == [d \in 1..(n_det - 1) |->
                      [i \in 0..(nsky - 1) |->
                          geocenter_delays[d + 1][i] - geocenter_delays[1][i]]]
        map == _create_delays2inds_map(delays, f_sampling, nsky)
        base == [status |-> "ValueError",
                 built |-> SamplingStructures,
                 detector_names |-> detector_names,
                 nsky |-> nsky,
                 f_sampling |-> f_sampling,
                 seed |-> args.seed,
                 _rng |-> rng,
                 sky_samples |-> sky_samples,
                 fplus_fcross_0 |-> fplus_fcross_0,
                 geocenter_delay_first_det |-> geocenter_delays[1],
                 delays |-> delays,
                 delays2inds_map |-> map,
                 _min_delay |-> None,
                 _max_delay |-> None,
                 delays_bounds |-> None,
                 delays_prior |-> None,
                 _ind_generators |-> None,
                 _sky_prior |-> None]
    IN  \* np.min of an empty array of keys raises ValueError
        IF DOMAIN map = {} THEN base
        ELSE
        LET min_delay == KeysMin(map, n_det - 1)
            max_delay == KeysMax(map, n_det - 1)
            weights == [i \in 0..(nsky - 1) |-> Weight(fplus_fcross_0[i])]
            pd(order) ==
                PairwiseDelays(geocenter_delays, order, f_sampling, nsky)
            delays_prior == [order \in AllOrders(n_det) |->
                                Histogram(pd(order), weights, nsky)]
            delays_bounds == [order \in DetPermutations(n_det, 2) |->
                                 Bounds(pd(order), nsky)]
            shape == [d \in 1..(n_det - 1) |-> max_delay[d] - min_delay[d] + 1]
            keys == KeysInOrder(map, DOMAIN map)
            gens == StoreGenerators(Full(shape, EmptyIter), shape, map, keys, 1)
            priors == StorePriors(Full(shape, <<0, 1>>), shape, map, keys, 1,
                                  args)
            upto_gens == [base EXCEPT !.built = @ \cup TableStructures,
                                      !._min_delay = min_delay,
                                      !._max_delay = max_delay,
                                      !.delays_bounds = delays_bounds,
                                      !.delays_prior = delays_prior,
                                      !._ind_generators = gens.arr]
        IN  IF ~gens.ok THEN [upto_gens EXCEPT !.status = "IndexError"]
            ELSE IF ~priors.ok
            THEN [upto_gens EXCEPT !.status = "IndexError",
                                   !.built = @ \cup {"_sky_prior"},
                                   !._sky_prior = priors.arr]
            ELSE [upto_gens EXCEPT !.status = "ready",
                                   !.built = @ \cup {"_sky_prior"},
                                   !._sky_prior = priors.arr]

---------------------------------------------------------------------------
(* SkyDictionary.get_sky_inds_and_prior                                    *)

\* seq[mask]: the entries of seq whose mask entry is TRUE, in order.
RECURSIVE Masked(_, _)
Masked(seq, mask) ==
    IF seq = <<>> THEN <<>>
    ELSE (IF Head(mask) THEN <<Head(seq)>> ELSE <<>>)
         \o Masked(Tail(seq), Tail(mask))

\* The number of TRUE entries among the first n entries of mask.
RECURSIVE CountTrue(_, _)
CountTrue(mask, n) ==
    IF n = 0 THEN 0
    ELSE CountTrue(mask, n - 1) + (IF mask[n] THEN 1 ELSE 0)

\* Mutant of InRange: the upper limit is not tested.
InRangeFromBelow(obj, column) ==
    \A d \in DOMAIN column : column[d] >= obj._min_delay[d]

\* First mask: every component of the column within [_min_delay, _max_delay].
InRange(obj, column) ==
    \A d \in DOMAIN column :
        /\ column[d] >= obj._min_delay[d]
        /\ column[d] <= obj._max_delay[d]

RangeMask(obj, delays) == [j \in DOMAIN delays |-> InRange(obj, delays[j])]

\* Mutant of ApplySubmask: the submask is applied by position in the full
\* mask instead of position among its True entries.
ApplySubmaskByPosition(mask, submask) ==
    [j \in DOMAIN mask |->
        mask[j] /\ (j \in DOMAIN submask => submask[j])]

\* physical_mask[physical_mask] *= submask
ApplySubmask(mask, submask) ==
    [j \in DOMAIN mask |-> mask[j] /\ submask[CountTrue(mask, j)]]

Shape(obj) ==
    [d \in DOMAIN obj._min_delay |-> obj._max_delay[d] - obj._min_delay[d] + 1]

\* Mutant of DrawSkyInds: next() is called twice on each generator and the
\* second item kept.
RECURSIVE DrawSkyIndsTwice(_, _, _, _, _)
DrawSkyIndsTwice(arr, shape, columns, j, drawn) ==
    IF j > Len(columns) THEN [arr |-> arr, sky_inds |-> drawn]
    ELSE LET c == Cell(columns[j], shape)
         IN  IF NextValue(arr[c]) = -1 THEN [arr |-> arr, sky_inds |-> drawn]
             ELSE DrawSkyIndsTwice(
                     [arr EXCEPT ![c] = NextState(NextState(arr[c]))],
                     shape, columns, j + 1,
                     Append(drawn, NextValue(NextState(arr[c]))))

\* Mutant of DrawSkyInds: one cursor position is shared, a next() on any
\* generator advances them all.
RECURSIVE DrawSkyIndsSharedCursor(_, _, _, _, _)
DrawSkyIndsSharedCursor(arr, shape, columns, j, drawn) ==
    IF j > Len(columns) THEN [arr |-> arr, sky_inds |-> drawn]
    ELSE LET c == Cell(columns[j], shape)
         IN  IF NextValue(arr[c]) = -1 THEN [arr |-> arr, sky_inds |-> drawn]
             ELSE DrawSkyIndsSharedCursor(
                     [x \in DOMAIN arr |-> NextState(arr[x])],
                     shape, columns, j + 1,
                     Append(drawn, NextValue(arr[c])))

\* np.fromiter(map(next, generators), int) over the generators of
\* columns[j..]: each next() advances the generator stored in the cell;
\* a StopIteration ends the iteration.
RECURSIVE DrawSkyInds(_, _, _, _, _)
DrawSkyInds(arr, shape, columns, j, drawn) ==
    IF j > Len(columns) THEN [arr |-> arr, sky_inds |-> drawn]
    ELSE LET c == Cell(columns[j], shape)
         IN  IF NextValue(arr[c]) = -1 THEN [arr |-> arr, sky_inds |-> drawn]
             ELSE DrawSkyInds([arr EXCEPT ![c] = NextState(arr[c])],
                              shape, columns, j + 1,
                              Append(drawn, NextValue(arr[c])))

\* Mutant of GeneratorColumns: a generator is taken for every column that
\* passed the first mask.
GeneratorColumnsInRange(delays, mask1, physical_mask) ==
    Masked(delays, mask1)

\* delays[:, physical_mask] of line 219: the columns a generator is taken
\* for are those left after both masks.
GeneratorColumns(delays, mask1, physical_mask) ==
    Masked(delays, physical_mask)

\* The call on instance obj with argument delays (a sequence of columns):
\* what it returns, the keys with which it indexes the two dense arrays,
\* and the generator array afterwards.
get_sky_inds_and_prior(obj, delays) ==
    LET shape == Shape(obj)
        mask1 == RangeMask(obj, delays)
        prior_reads == Masked(delays, mask1)
        sky_prior1 == [j \in DOMAIN prior_reads |->
                          obj._sky_prior[Cell(prior_reads[j], shape)]]
        submask == [j \in DOMAIN sky_prior1 |-> RatPos(sky_prior1[j])]
        physical_mask == ApplySubmask(mask1, submask)
        sky_prior == Masked(sky_prior1, submask)
        generator_reads == GeneratorColumns(delays, mask1, physical_mask)
        drawn == DrawSkyInds(obj._ind_generators, shape, generator_reads,
                             1, <<>>)
        failed == [made |-> TRUE, delays |-> delays, raised |-> TRUE,
                   sky_inds |-> <<>>, sky_prior |-> <<>>,
                   physical_mask |-> <<>>,
                   prior_reads |-> prior_reads, generator_reads |-> <<>>]
    IN  IF \E j \in DOMAIN prior_reads : ~CellOk(prior_reads[j], shape)
        THEN [generators |-> obj._ind_generators, result |-> failed]
        ELSE IF \E j \in DOMAIN generator_reads :
                    ~CellOk(generator_reads[j], shape)
        THEN [generators |-> obj._ind_generators,
              result |-> [failed EXCEPT !.generator_reads = generator_reads]]
        ELSE [generators |-> drawn.arr,
              result |-> [made |-> TRUE, delays |-> delays, raised |-> FALSE,
                          sky_inds |-> drawn.sky_inds,
                          sky_prior |-> sky_prior,
                          physical_mask |-> physical_mask,
                          prior_reads |-> prior_reads,
                          generator_reads |-> generator_reads]]

---------------------------------------------------------------------------
(* Binary floating point                                                   *)

\* A float is a rational <<n, d>> (d > 0, lowest terms) whose value has a
\* significand of MantissaBits bits; every arithmetic operation returns the
\* exact result rounded to the nearest float, halves to even, as IEEE 754
\* prescribes. numpy's float64 has 53 bits; the model keeps the rounding
\* rule and narrows the significand.
MantissaBits == 6

RECURSIVE GCD(_, _)
GCD(a, b) == IF b = 0 THEN a ELSE GCD(b, a % b)

Abs(x) == IF x < 0 THEN -x ELSE x

RatNorm(q) ==
    LET g == GCD(Abs(q[1]), q[2])
    IN  IF q[1] = 0 THEN <<0, 1>> ELSE <<q[1] \div g, q[2] \div g>>

RatSub(p, q) == <<p[1] * q[2] - q[1] * p[2], p[2] * q[2]>>
RatMul(p, q) == <<p[1] * q[1], p[2] * q[2]>>
RatDiv(p, q) ==
    IF q[1] > 0 THEN <<p[1] * q[2], p[2] * q[1]>>
    ELSE <<-(p[1] * q[2]), p[2] * (-q[1])>>
RatAbs(p) == <<Abs(p[1]), p[2]>>

\* The positive rational a/d rounded to MantissaBits significant bits.
\* up and down hold the power of two taken out of, or put into, a/d to bring
\* it into [2^(MantissaBits-1), 2^MantissaBits).
RECURSIVE RoundPos(_, _, _, _)
RoundPos(a, d, up, down) ==
    IF a >= d * Pow(2, MantissaBits)
    THEN RoundPos(a, 2 * d, 2 * up, down)
    ELSE IF a < d * Pow(2, MantissaBits - 1)
    THEN RoundPos(2 * a, d, up, 2 * down)
    ELSE RatNorm(<<RInt(a, d) * up, down>>)

\* Rounding of an exact result to the nearest float.
Fl(q) ==
    IF q[1] = 0 THEN <<0, 1>>
    ELSE LET r == RoundPos(Abs(q[1]), q[2], 1, 1)
         IN  IF q[1] < 0 THEN <<-r[1], r[2]>> ELSE r

FloatOf(n) == Fl(<<n, 1>>)
FAdd(p, q) == Fl(RatNorm(RatAdd(p, q)))
FSub(p, q) == Fl(RatNorm(RatSub(p, q)))
FMul(p, q) == Fl(RatNorm(RatMul(p, q)))
FDiv(p, q) == Fl(RatNorm(RatDiv(p, q)))

\* int(x) for a float x: truncation toward zero.
IntOf(x) == IF x[1] >= 0 THEN x[1] \div x[2] ELSE -((-x[1]) \div x[2])

\* np.isclose(a, b) with numpy's default tolerances:
\* |a - b| <= atol + rtol * |b|, atol = 1 / ATolInv, rtol = TolRatio * atol.
\* With x/d = |a - b| and p/q = |b| this is ATolInv * x * q <= d * (q +
\* TolRatio * p), evaluated by division to keep the numbers small.
ATolInv == 100000000
TolRatio == 1000

IsClose(a, b) ==
    LET diff == RatNorm(RatAbs(RatSub(a, b)))
        absb == RatAbs(b)
    IN  \/ diff[1] = 0
        \/ ATolInv <= (diff[2] * (absb[2] + TolRatio * absb[1]))
                          \div (diff[1] * absb[2])

---------------------------------------------------------------------------
(* SkyDictionary.resample_timeseries                                       *)

\* A timeseries is its length along the resampled axis and the operations
\* applied to the caller's data; times is the sequence of sample positions
\* (times[0] of the code is times[1] here).
Windowed(timeseries) ==
    [timeseries EXCEPT !.ops = Append(@, "window")]

\* scipy.signal.resample(x, num, t): num samples by FFT, and
\* new_t = np.arange(0, num) * (t[1] - t[0]) * Nx / float(num) + t[0].
SignalResample(x, num, t) ==
    LET step == FSub(t[2], t[1])
    IN  [timeseries |-> [n |-> num,
                         ops |-> Append(x.ops, <<"resample", num>>)],
         times |-> [k \in 1..num |->
                       FAdd(FDiv(FMul(FMul(FloatOf(k - 1), step),
                                      FloatOf(x.n)),
                                 FloatOf(num)),
                            t[1])]]

\* The outcome of resample_timeseries: raised is None or the exception,
\* and timeseries, times are the returned pair.
ResampleRaised(exception) ==
    [raised |-> Some(exception), timeseries |-> None, times |-> None]

resample_timeseries(obj, timeseries, times, window) ==
    LET windowed == IF window # None THEN Windowed(timeseries)
                    ELSE timeseries
    IN  IF Len(times) < 2 THEN ResampleRaised("IndexError")
        ELSE
        LET fs_ratio == FMul(FloatOf(obj.f_sampling),
                             FSub(times[2], times[1]))
            num == IntOf(FMul(FloatOf(Len(times)), fs_ratio))
        IN  IF fs_ratio = <<1, 1>>
            THEN [raised |-> None, timeseries |-> windowed, times |-> times]
            \* scipy's inverse FFT rejects an output length below 1
            ELSE IF num < 1 THEN ResampleRaised("ValueError")
            ELSE
            LET r == SignalResample(windowed, num, times)
            IN  \* times[1] of a one-sample grid raises IndexError
                IF Len(r.times) < 2 THEN ResampleRaised("IndexError")
                ELSE IF ~IsClose(FDiv(FloatOf(1), FloatOf(obj.f_sampling)),
                                 FSub(r.times[2], r.times[1]))
                THEN ResampleRaised("ValueError")
                ELSE [raised |-> None,
                      timeseries |-> r.timeseries,
                      times |-> r.times]

---------------------------------------------------------------------------
(* The state machine                                                       *)

Seeds == 0..MaxSeed
Entropies == 0..MaxEntropy

\* The seeds a caller may pass for nsky samples: None, or an integer. Seeds
\* from NDirections^nsky on draw the populations of the smaller seeds again.
SeedArgs(nsky) ==
    {Some(s) : s \in {x \in Seeds : x < Pow(NDirections, nsky)}} \cup {None}

ConstructorArgs ==
    UNION {[detector_names : DetectorNetworks,
            f_sampling : FSamplings,
            nsky : {n},
            seed : SeedArgs(n)] : n \in 0..MaxNSky}

New(args) == [status |-> "new", args |-> args]

NoCall ==
    [made |-> FALSE, delays |-> <<>>, raised |-> FALSE,
     sky_inds |-> <<>>, sky_prior |-> <<>>, physical_mask |-> <<>>,
     prior_reads |-> <<>>, generator_reads |-> <<>>]

\* No resample_timeseries call yet; no thread inside a call.
NoResample == [made |-> FALSE]
NoWorkers == <<>>

\* The prior module before it is imported.
NoPriors == <<>>

Init ==
    /\ \E args \in ConstructorArgs : self = New(args)
    /\ call = NoCall
    /\ n_next = <<>>
    /\ twin = None
    /\ twin_call = NoCall
    /\ resample = NoResample
    /\ workers = NoWorkers
    /\ prior_mod = NoPriors

\* SkyDictionary(detector_names, f_sampling=..., nsky=..., seed=...)
Construct ==
    /\ self.status = "new"
    /\ \E entropy \in Entropies :
          self' = __init__(self.args, entropy)
    /\ n_next' = [k \in DOMAIN self'.delays2inds_map |-> 0]
    /\ UNCHANGED <<call, twin, twin_call, resample, workers, prior_mod>>

\* The columns a caller may pass: every component within one bin of the
\* delay range, so that columns below, inside and above the range occur.
QueryColumns(obj) ==
    {c \in Tuples((MinOf(Range(obj._min_delay)) - 1)
                      ..(MaxOf(Range(obj._max_delay)) + 1),
                  Len(obj._min_delay)) :
        \A d \in DOMAIN c : /\ c[d] >= obj._min_delay[d] - 1
                            /\ c[d] <= obj._max_delay[d] + 1}

\* The (n_det - 1, n_queries) arrays of at most MaxQueryEntries entries.
QueryArrays(obj) ==
    UNION {Tuples(QueryColumns(obj), n) :
              n \in 0..(MaxQueryEntries \div Len(obj._min_delay))}

\* The surviving queries of a call that carry key k.
Served(result, k) ==
    Cardinality({j \in DOMAIN result.physical_mask :
                    result.physical_mask[j] /\ result.delays[j] = k})

\* sky_inds, sky_prior, physical_mask = self.get_sky_inds_and_prior(delays)
CallOnSelf(delays) ==
    \E r \in {get_sky_inds_and_prior(self, delays)} :
        /\ self' = [self EXCEPT !._ind_generators = r.generators]
        /\ call' = r.result
        /\ n_next' = [k \in DOMAIN n_next |->
                         (n_next[k] + Served(r.result, k))
                             % Len(self.delays2inds_map[k])]

Query ==
    /\ self.status = "ready"
    /\ ~call.made
    /\ \E delays \in QueryArrays(self) : CallOnSelf(delays)
    /\ UNCHANGED <<twin, twin_call, resample, workers, prior_mod>>

\* The caller has taken the returned arrays; the next call can follow.
Return ==
    /\ call.made
    /\ call' = NoCall
    /\ twin_call' = NoCall
    /\ UNCHANGED <<self, n_next, twin, resample, workers, prior_mod>>

Next == Construct \/ Query \/ Return

Spec == Init /\ [][Next]_vars

\* Construction alone: the instances the constructor builds, before any
\* call.
ConstructNext == Construct

SpecConstruct == Init /\ [][ConstructNext]_vars

---------------------------------------------------------------------------
(* Two instances built from the same arguments and driven by the same      *)
(* calls                                                                   *)

TwinInit ==
    /\ \E args \in ConstructorArgs : self = New(args) /\ twin = New(args)
    /\ call = NoCall
    /\ n_next = <<>>
    /\ twin_call = NoCall
    /\ resample = NoResample
    /\ workers = NoWorkers
    /\ prior_mod = NoPriors

\* The second SkyDictionary(...) with the arguments of the first.
ConstructTwin ==
    /\ twin.status = "new"
    /\ \E entropy \in Entropies :
          twin' = __init__(twin.args, entropy)
    /\ UNCHANGED <<self, call, n_next, twin_call, resample, workers, prior_mod>>

\* The same get_sky_inds_and_prior(delays) on both instances.
QueryBoth ==
    /\ self.status = "ready"
    /\ twin.status = "ready"
    /\ ~call.made
    /\ \E delays \in QueryArrays(self) \cup QueryArrays(twin) :
          \E r \in {get_sky_inds_and_prior(twin, delays)} :
              /\ CallOnSelf(delays)
              /\ twin' = [twin EXCEPT !._ind_generators = r.generators]
              /\ twin_call' = r.result
    /\ UNCHANGED <<resample, workers, prior_mod>>

TwinNext == Construct \/ ConstructTwin \/ QueryBoth \/ Return

SpecTwin == TwinInit /\ [][TwinNext]_vars

---------------------------------------------------------------------------
(* Calls of resample_timeseries on a constructed instance                  *)

MaxSamples == 4

\* Sampling frequencies of the instance, and rates of the caller's data.
ResampleFSamplings == {2, 13}
SourceRates == {1, 2, 3, 4, 13, 26}
Windows == {None, Some("tukey")}

\* resample_timeseries reads f_sampling only: two-detector instances.
ResampleConstructorArgs ==
    {[a EXCEPT !.f_sampling = f] :
        a \in {c \in ConstructorArgs : Len(c.detector_names) = 2},
        f \in ResampleFSamplings}

\* The caller's data: n samples taken at the given rate,
\* times = np.arange(n) / rate.
SourceSeries(n) == [n |-> n, ops |-> <<>>]
SourceTimes(n, rate) ==
    [k \in 1..n |-> FDiv(FloatOf(k - 1), FloatOf(rate))]

ResampleInit ==
    /\ \E args \in ResampleConstructorArgs : self = New(args)
    /\ call = NoCall
    /\ n_next = <<>>
    /\ twin = None
    /\ twin_call = NoCall
    /\ resample = NoResample
    /\ workers = NoWorkers
    /\ prior_mod = NoPriors

\* The record of one call: its arguments and its outcome.
ResampleCall(timeseries, times, window, again) ==
    \E r \in {resample_timeseries(self, timeseries, times, window)} :
        resample' = [made |-> TRUE, again |-> again,
                     arg_timeseries |-> timeseries, arg_times |-> times,
                     window |-> window,
                     raised |-> r.raised,
                     timeseries |-> r.timeseries, times |-> r.times]

\* self.resample_timeseries(timeseries, times, window=window)
Resample ==
    /\ self.status = "ready"
    /\ ~resample.made
    /\ \E n \in 2..MaxSamples, rate \in SourceRates, window \in Windows :
          ResampleCall(SourceSeries(n), SourceTimes(n, rate), window, FALSE)
    /\ UNCHANGED <<self, call, n_next, twin, twin_call, workers, prior_mod>>

\* self.resample_timeseries(*output, window=window) on the pair a call
\* returned.
ResampleOutput ==
    /\ resample.made
    /\ ~resample.again
    /\ resample.raised = None
    /\ \E window \in Windows :
          ResampleCall(resample.timeseries, resample.times, window, TRUE)
    /\ UNCHANGED <<self, call, n_next, twin, twin_call, workers, prior_mod>>

\* The caller has taken the outcome.
ResampleReturn ==
    /\ resample.made
    /\ resample' = NoResample
    /\ UNCHANGED <<self, call, n_next, twin, twin_call, workers, prior_mod>>

ResampleNext == Construct \/ Resample \/ ResampleOutput \/ ResampleReturn

SpecResample == ResampleInit /\ [][ResampleNext]_vars

---------------------------------------------------------------------------
(* Two threads inside get_sky_inds_and_prior on one instance               *)

\* get_sky_inds_and_prior takes no lock, and next() on an itertools.cycle
\* reads the cursor, takes the item and stores the advanced cursor. Where
\* threads run in parallel these steps of two calls interleave; where a
\* global interpreter lock serialises them the store follows the read at
\* once, which is one of the interleavings below.
Workers == {1, 2}

IdleWorker == [pc |-> "idle"]

WorkersInit ==
    /\ \E args \in ConstructorArgs : self = New(args)
    /\ call = NoCall
    /\ n_next = <<>>
    /\ twin = None
    /\ twin_call = NoCall
    /\ resample = NoResample
    /\ workers = [w \in Workers |-> IdleWorker]
    /\ prior_mod = NoPriors

\* Mutant of StoreCursor: the cursor stored is one past the cursor of the
\* moment, not one past the cursor the thread read.
StoreCursorOfTheMoment(shared, seen) == NextState(shared)

\* The cursor next() stores: one past the cursor it read.
StoreCursor(shared, seen) == NextState(seen)

\* Lines 207-219 for a one-column array: the masks and the prior, read from
\* arrays no call writes, and the reference to the column's generator.
WorkerEnter(w) ==
    /\ self.status = "ready"
    /\ workers[w].pc = "idle"
    /\ \E column \in QueryColumns(self) :
          \E r \in {get_sky_inds_and_prior(self, <<column>>).result} :
              workers' = [workers EXCEPT ![w] =
                  [pc |-> IF r.physical_mask[1] THEN "drawing"
                          ELSE "returned",
                   delays |-> <<column>>,
                   physical_mask |-> r.physical_mask,
                   sky_prior |-> r.sky_prior,
                   seen |-> None,
                   sky_inds |-> <<>>]]
    /\ UNCHANGED <<self, call, n_next, twin, twin_call, resample, prior_mod>>

\* Line 220, first half of next(): read the cursor and take the item.
WorkerRead(w) ==
    /\ workers[w].pc = "drawing"
    /\ LET cell == Cell(workers[w].delays[1], Shape(self))
           seen == self._ind_generators[cell]
       IN  workers' = [workers EXCEPT ![w] =
               [@ EXCEPT !.pc = "advancing",
                         !.seen = seen,
                         !.sky_inds = <<NextValue(seen)>>]]
    /\ UNCHANGED <<self, call, n_next, twin, twin_call, resample, prior_mod>>

\* Line 220, second half of next(): store the advanced cursor; then the
\* call returns.
WorkerWrite(w) ==
    /\ workers[w].pc = "advancing"
    /\ LET cell == Cell(workers[w].delays[1], Shape(self))
       IN  self' = [self EXCEPT !._ind_generators[cell] =
                       StoreCursor(@, workers[w].seen)]
    /\ workers' = [workers EXCEPT ![w].pc = "returned"]
    /\ UNCHANGED <<call, n_next, twin, twin_call, resample, prior_mod>>

WorkersNext ==
    \/ Construct
    \/ \E w \in Workers : WorkerEnter(w)
    \/ \E w \in Workers : WorkerRead(w)
    \/ \E w \in Workers : WorkerWrite(w)

SpecWorkers == WorkersInit /\ [][WorkersNext]_vars

---------------------------------------------------------------------------
(* prior.py and gw_prior/combined.py: prior classes and prior_registry     *)

\* A class is its method resolution order (itself first) and the attributes
\* its own namespace holds. range_dic is kept as the list of its keys, which
\* is what sampled_params returns; a method is kept as the name of the class
\* whose body defines it.
MaxValue == 1
MaxBases == 3
MaxPriorClasses == 2

Values == 0..MaxValue

Class(mro, own) == [mro |-> mro, own |-> own]

\* The classes prior.py and gw_prior/combined.py define on import.
LibraryClasses ==
    [object |-> Class(<<"object">>, <<>>),
     ABC |-> Class(<<"ABC", "object">>, <<>>),
     Prior |->
        Class(<<"Prior", "ABC", "object">>,
              [conditioned_on |-> <<>>,
               range_dic |-> <<>>,
               standard_params |-> <<>>,
               __init__ |-> "Prior",
               get_init_dic |-> "Prior",
               __init_subclass__ |-> "Prior",
               get_fast_sampled_params |-> "Prior"]),
     CombinedPrior |->
        Class(<<"CombinedPrior", "Prior", "ABC", "object">>,
              [__init__ |-> "CombinedPrior",
               get_init_dic |-> "CombinedPrior",
               __init_subclass__ |-> "CombinedPrior",
               get_fast_sampled_params |-> "CombinedPrior"]),
     UniformPriorMixin |->
        Class(<<"UniformPriorMixin", "object">>,
              [lnprior |-> "UniformPriorMixin",
               __init_subclass__ |-> "UniformPriorMixin"]),
     IdentityTransformMixin |->
        Class(<<"IdentityTransformMixin", "object">>,
              [__init_subclass__ |-> "IdentityTransformMixin",
               transform |-> "IdentityTransformMixin"]),
     ReferenceWaveformFinderMixin |->
        Class(<<"ReferenceWaveformFinderMixin", "object">>, <<>>),
     RegisteredPriorMixin |->
        Class(<<"RegisteredPriorMixin", "ReferenceWaveformFinderMixin",
                "object">>,
              [__init_subclass__ |-> "RegisteredPriorMixin"])]

\* Priors for single parameters, as a user module defines them before it
\* combines them: a mass sampled as itself, and a distance whose sampled
\* coordinate depends on the mass. The transform "shift" adds its inputs
\* modulo the number of values.
LeafClasses ==
    [UniformMass |->
        Class(<<"UniformMass", "UniformPriorMixin", "IdentityTransformMixin",
                "Prior", "ABC", "object">>,
              [range_dic |-> <<"m">>, standard_params |-> <<"m">>]),
     Distance |->
        Class(<<"Distance", "Prior", "ABC", "object">>,
              [range_dic |-> <<"d_hat">>, standard_params |-> <<"d">>,
               conditioned_on |-> <<"m">>, transform |-> "shift"])]

\* The names of the classes defined later, in the order they are taken.
NewClassNames == <<"Final">>

\* Attribute lookup along the method resolution order.
Defines(env, c, attr) == attr \in DOMAIN env[c].own

HasAttr(env, mro, attr) == \E i \in DOMAIN mro : Defines(env, mro[i], attr)

GetAttr(env, mro, attr) ==
    LET i == CHOOSE i \in DOMAIN mro :
                 /\ Defines(env, mro[i], attr)
                 /\ \A j \in 1..(i - 1) : ~Defines(env, mro[j], attr)
    IN  env[mro[i]].own[attr]

SampledParams(env, c) == GetAttr(env, env[c].mro, "range_dic")
StandardParams(env, c) == GetAttr(env, env[c].mro, "standard_params")
ConditionedOn(env, c) == GetAttr(env, env[c].mro, "conditioned_on")

RECURSIVE Concat(_)
Concat(lists) ==
    IF lists = <<>> THEN <<>> ELSE Head(lists) \o Concat(Tail(lists))

\* list.index
Index(s, x) ==
    CHOOSE i \in DOMAIN s : s[i] = x /\ \A j \in 1..(i - 1) : s[j] # x

\* The C3 merge type() computes the method resolution order with; not ok
\* where the bases admit no consistent order (TypeError).
RECURSIVE Merge(_)
Merge(seqs) ==
    LET live == SelectSeq(seqs, LAMBDA s : s # <<>>)
        InTail(c) == \E i \in DOMAIN live :
                        \E j \in 2..Len(live[i]) : live[i][j] = c
        good == {i \in DOMAIN live : ~InTail(live[i][1])}
    IN  IF live = <<>> THEN [ok |-> TRUE, mro |-> <<>>]
        ELSE IF good = {} THEN [ok |-> FALSE, mro |-> <<>>]
        ELSE LET first == MinOf(good)
                 head == live[first][1]
                 rest == Merge([k \in DOMAIN live |->
                                   IF live[k][1] = head THEN Tail(live[k])
                                   ELSE live[k]])
             IN  [ok |-> rest.ok, mro |-> <<head>> \o rest.mro]

Linearize(env, name, bases) ==
    LET lin == Merge([i \in DOMAIN bases |-> env[bases[i]].mro]
                     \o <<bases>>)
    IN  [ok |-> lin.ok, mro |-> <<name>> \o lin.mro]

\* prior.py 515-528: "ok", or the exception raised.
check_inheritance_order(mro, base1, base2) ==
    IF base1 \notin Range(mro) \/ base2 \notin Range(mro) THEN "PriorError"
    ELSE IF Index(mro, base1) > Index(mro, base2) THEN "PriorError"
    ELSE "ok"

\* Prior.__init_subclass__ after its super() call, prior.py 179-183.
Prior_init_subclass(env, mro, st) ==
    IF /\ GetAttr(env, mro, "__init__") # "Prior"
       /\ GetAttr(env, mro, "get_init_dic") = "Prior"
    THEN [st EXCEPT !.status = "PriorError"]
    ELSE st

\* CombinedPrior.__init_subclass__ after its super() call, prior.py 261-376.
CombinedPrior_init_subclass(env, mro, st) ==
    IF ~HasAttr(env, mro, "prior_classes")
    THEN [st EXCEPT !.status = "TypeError"]
    ELSE
    LET prior_classes == GetAttr(env, mro, "prior_classes")
        sampled_params ==
            Concat([i \in DOMAIN prior_classes |->
                       SampledParams(env, prior_classes[i])])
        standard_params ==
            Concat([i \in DOMAIN prior_classes |->
                       StandardParams(env, prior_classes[i])])
        Following(i, par) ==
            \E k \in i..Len(prior_classes) :
                par \in Range(StandardParams(env, prior_classes[k]))
        conditioned_on ==
            SelectSeq(Concat([i \in DOMAIN prior_classes |->
                                 ConditionedOn(env, prior_classes[i])]),
                      LAMBDA par : par \notin Range(standard_params))
    IN  IF Len(sampled_params) # Cardinality(Range(sampled_params))
        THEN [st EXCEPT !.status = "PriorError"]
        ELSE IF Len(standard_params) # Cardinality(Range(standard_params))
        THEN [st EXCEPT !.status = "PriorError"]
        ELSE IF \E i \in DOMAIN prior_classes :
                   \E par \in Range(ConditionedOn(env, prior_classes[i])) :
                       Following(i, par)
        THEN [st EXCEPT !.status = "PriorError"]
        ELSE [st EXCEPT !.own =
                 [range_dic |-> sampled_params,
                  standard_params |-> standard_params,
                  conditioned_on |-> conditioned_on,
                  transform |-> "CombinedPrior"] @@ @]

\* UniformPriorMixin.__init_subclass__, prior.py 477-481: no super() call.
UniformPriorMixin_init_subclass(env, mro, st) ==
    [st EXCEPT !.status =
        check_inheritance_order(mro, "UniformPriorMixin", "Prior")]

\* IdentityTransformMixin.__init_subclass__ after its super() call,
\* prior.py 497-500.
IdentityTransformMixin_init_subclass(env, mro, st) ==
    IF Range(GetAttr(env, mro, "range_dic"))
           # Range(GetAttr(env, mro, "standard_params"))
    THEN [st EXCEPT !.status = "PriorError"]
    ELSE [st EXCEPT !.status =
             check_inheritance_order(mro, "IdentityTransformMixin", "Prior")]

\* RegisteredPriorMixin.__init_subclass__ after its super() call,
\* combined.py 80-85.
RegisteredPriorMixin_init_subclass(env, mro, st) ==
    IF check_inheritance_order(mro, "RegisteredPriorMixin", "Prior") # "ok"
    THEN [st EXCEPT !.status = "PriorError"]
    ELSE IF GetAttr(env, mro, "conditioned_on") # <<>>
    THEN [st EXCEPT !.status = "ConditionedPriorError"]
    ELSE [st EXCEPT !.registered = TRUE]

\* The __init_subclass__ implementations type() reaches for a new class:
\* the first one along the order after the class itself, and from each the
\* next one as long as it calls super().__init_subclass__().
CallsSuper(hook) == hook # "UniformPriorMixin"

Hooks(env, mro) ==
    LET all == SelectSeq(Tail(mro),
                         LAMBDA c : Defines(env, c, "__init_subclass__"))
        stops == {i \in DOMAIN all : ~CallsSuper(all[i])}
    IN  IF stops = {} THEN all ELSE SubSeq(all, 1, MinOf(stops))

\* Every implementation calls super() on its first line, so the bodies run
\* from the last one reached back to the first; an exception ends the run.
RECURSIVE RunHooks(_, _, _, _, _, _)
RunHooks(classes, name, mro, hooks, i, st) ==
    IF i = 0 \/ st.status # "ok" THEN st
    ELSE LET env == (name :> Class(mro, st.own)) @@ classes
             hook == hooks[i]
             after ==
                CASE hook = "Prior" -> Prior_init_subclass(env, mro, st)
                  [] hook = "CombinedPrior" ->
                        CombinedPrior_init_subclass(env, mro, st)
                  [] hook = "UniformPriorMixin" ->
                        UniformPriorMixin_init_subclass(env, mro, st)
                  [] hook = "IdentityTransformMixin" ->
                        IdentityTransformMixin_init_subclass(env, mro, st)
                  [] hook = "RegisteredPriorMixin" ->
                        RegisteredPriorMixin_init_subclass(env, mro, st)
         IN  RunHooks(classes, name, mro, hooks, i - 1, after)

\* The class statement `class name(*bases): body`.
ClassStatement(classes, name, bases, body) ==
    LET lin == Linearize(classes, name, bases)
        env == (name :> Class(lin.mro, body)) @@ classes
        hooks == Hooks(env, lin.mro)
        st == RunHooks(classes, name, lin.mro, hooks, Len(hooks),
                       [own |-> body, status |-> "ok", registered |-> FALSE])
        made == (name :> Class(lin.mro, st.own)) @@ classes
    IN  IF ~lin.ok
        THEN [status |-> "TypeError", mro |-> <<>>, own |-> body,
              registered |-> FALSE, conditioned_on |-> <<>>]
        ELSE [status |-> st.status, mro |-> lin.mro, own |-> st.own,
              registered |-> st.registered,
              conditioned_on |->
                 IF HasAttr(made, lin.mro, "conditioned_on")
                 THEN GetAttr(made, lin.mro, "conditioned_on")
                 ELSE <<>>]

\* Whether class c can be instantiated: transform is not abstract, and
\* neither is that of any class a CombinedPrior instance instantiates.
RECURSIVE Instantiable(_, _)
Instantiable(env, c) ==
    /\ HasAttr(env, env[c].mro, "transform")
    /\ GetAttr(env, env[c].mro, "transform") = "CombinedPrior"
          => /\ HasAttr(env, env[c].mro, "prior_classes")
             /\ \A sub \in Range(GetAttr(env, env[c].mro, "prior_classes")) :
                    Instantiable(env, sub)

KeyError == [raised |-> TRUE, dic |-> <<>>]
TransformReturns(dic) == [raised |-> FALSE, dic |-> dic]

\* The class along the order of c whose namespace holds attr.
Owner(env, c, attr) ==
    LET mro == env[c].mro
    IN  mro[CHOOSE i \in DOMAIN mro :
                /\ Defines(env, mro[i], attr)
                /\ \A j \in 1..(i - 1) : ~Defines(env, mro[j], attr)]

\* transform of an instance of class c called with the keywords par_dic,
\* and the loop of prior.py 305-309 over the subpriors of a CombinedPrior
\* instance. The transform CombinedPrior generates reads standard_params
\* from the class it was generated for and the subpriors from the instance.
RECURSIVE transform(_, _, _)
RECURSIVE TransformSubpriors(_, _, _, _)
transform(env, c, par_dic) ==
    LET kind == GetAttr(env, env[c].mro, "transform")
    IN  CASE kind = "IdentityTransformMixin" ->
                IF Range(StandardParams(env, c)) \subseteq DOMAIN par_dic
                THEN TransformReturns([par \in Range(StandardParams(env, c)) |->
                                  par_dic[par]])
                ELSE KeyError
          [] kind = "shift" ->
                TransformReturns([par \in Range(StandardParams(env, c)) |->
                             SumOver(DOMAIN par_dic, par_dic)
                                 % (MaxValue + 1)])
          [] kind = "CombinedPrior" ->
                LET standard_params ==
                        env[Owner(env, c, "transform")].own.standard_params
                    done == TransformSubpriors(
                                env, GetAttr(env, env[c].mro, "prior_classes"),
                                1, par_dic)
                IN  IF done.raised THEN KeyError
                    ELSE IF ~(Range(standard_params) \subseteq DOMAIN done.dic)
                    THEN KeyError
                    ELSE TransformReturns([par \in Range(standard_params) |->
                                      done.dic[par]])

TransformSubpriors(env, subpriors, i, par_dic) ==
    IF i > Len(subpriors) THEN TransformReturns(par_dic)
    ELSE LET subprior == subpriors[i]
             inputs == Range(SampledParams(env, subprior)
                             \o ConditionedOn(env, subprior))
             input_dic == [par \in inputs |-> par_dic[par]]
         IN  IF ~(inputs \subseteq DOMAIN par_dic) THEN KeyError
             ELSE LET out == transform(env, subprior, input_dic)
                  IN  IF out.raised THEN KeyError
                      ELSE TransformSubpriors(env, subpriors, i + 1,
                                              out.dic @@ par_dic)

\* prior.py 197-207 and 417-427.
RECURSIVE get_fast_sampled_params(_, _, _)
get_fast_sampled_params(env, c, fast_standard_params) ==
    IF GetAttr(env, env[c].mro, "get_fast_sampled_params") = "Prior"
    THEN IF Range(StandardParams(env, c)) \subseteq fast_standard_params
         THEN SampledParams(env, c)
         ELSE <<>>
    ELSE LET prior_classes == GetAttr(env, env[c].mro, "prior_classes")
         IN  Concat([i \in DOMAIN prior_classes |->
                        get_fast_sampled_params(env, prior_classes[i],
                                                fast_standard_params)])

---------------------------------------------------------------------------
(* Class definitions and transforms on the prior module                    *)

NoDefinition == [made |-> FALSE]
NoTransform == [made |-> FALSE]

\* The user's module so far: the single-parameter priors and their
\* combination [P(m), P(d | m)] -> P(m, d), the schema of prior.py 214.
UserModule ==
    LET classes == LeafClasses @@ LibraryClasses
        made == ClassStatement(classes, "MassDistance", <<"CombinedPrior">>,
                               [prior_classes |-> <<"UniformMass", "Distance">>])
    IN  ("MassDistance" :> Class(made.mro, made.own)) @@ classes

\* After `import cogwheel.gw_prior` and the user's module so far.
PriorsInit ==
    /\ self = None
    /\ call = NoCall
    /\ n_next = <<>>
    /\ twin = None
    /\ twin_call = NoCall
    /\ resample = NoResample
    /\ workers = NoWorkers
    /\ prior_mod = [classes |-> UserModule,
                    prior_registry |-> <<>>,
                    defined |-> NoDefinition,
                    transformed |-> NoTransform]

\* The classes a class statement may name as bases or as prior_classes.
UserClasses(classes) == DOMAIN classes \ DOMAIN LibraryClasses

BaseCandidates(classes) ==
    UserClasses(classes)
        \cup {"RegisteredPriorMixin", "UniformPriorMixin", "CombinedPrior"}

DistinctTuples(S, n) ==
    {t \in Tuples(S, n) : Cardinality(Range(t)) = n}

\* Base lists: the mixins and CombinedPrior in any order, around at most
\* one class of the user's.
BaseLists(classes) ==
    {bases \in UNION {DistinctTuples(BaseCandidates(classes), n) :
                         n \in 1..MaxBases} :
        Cardinality(Range(bases) \cap UserClasses(classes)) <= 1}

\* Class bodies: empty, or a prior_classes list where the bases make the
\* class a CombinedPrior.
Bodies(classes, bases) ==
    {<<>>} \cup
    {[prior_classes |-> t] :
        t \in IF \E i \in DOMAIN bases :
                    "CombinedPrior" \in Range(classes[bases[i]].mro)
              THEN UNION {DistinctTuples(UserClasses(classes), n) :
                             n \in 1..MaxPriorClasses}
              ELSE {}}

\* The classes a class body names.
BodyClasses(body) ==
    IF "prior_classes" \in DOMAIN body THEN Range(body.prior_classes) ELSE {}

\* class name(*bases): prior_classes = [...]
\* One class statement or call runs at a time, and a class defined after
\* another one builds on it, as a base or as one of its prior_classes.
DefineClass ==
    /\ ~prior_mod.transformed.made
    /\ \E i \in DOMAIN NewClassNames :
       \E name \in {NewClassNames[i]} :
       \E bases \in BaseLists(prior_mod.classes) :
       \E body \in Bodies(prior_mod.classes, bases) :
          /\ name \notin DOMAIN prior_mod.classes
          /\ \A j \in 1..(i - 1) :
                /\ NewClassNames[j] \in DOMAIN prior_mod.classes
                /\ NewClassNames[j] \in Range(bases) \cup BodyClasses(body)
          /\ \E made \in {ClassStatement(prior_mod.classes, name, bases,
                                          body)} :
                prior_mod' =
                  [classes |->
                      IF made.status = "ok"
                      THEN (name :> Class(made.mro, made.own))
                               @@ prior_mod.classes
                      ELSE prior_mod.classes,
                   prior_registry |->
                      IF made.registered
                      THEN (name :> Class(made.mro, made.own))
                               @@ prior_mod.prior_registry
                      ELSE prior_mod.prior_registry,
                   defined |->
                      [made |-> TRUE, name |-> name,
                       status |-> made.status,
                       linearized |-> made.mro # <<>>,
                       registered_mixin |->
                          "RegisteredPriorMixin" \in Range(made.mro),
                       order |-> check_inheritance_order(
                                     made.mro, "RegisteredPriorMixin", "Prior"),
                       conditioned_on |-> made.conditioned_on,
                       prior_classes |-> IF "prior_classes" \in DOMAIN body
                                         THEN body.prior_classes ELSE <<>>,
                       registry_before |-> prior_mod.prior_registry],
                   transformed |-> NoTransform]
    /\ UNCHANGED <<self, call, n_next, twin, twin_call, resample, workers>>

\* The classes whose instances transform as CombinedPrior has it.
CombinedClasses(classes) ==
    {c \in UserClasses(classes) :
        /\ Instantiable(classes, c)
        /\ GetAttr(classes, classes[c].mro, "transform") = "CombinedPrior"}

\* Two transform calls on an instance of a combined prior whose arguments
\* differ in nothing but the parameters get_fast_sampled_params returned.
\* `defined` and `transformed` describe the latest operation only.
TransformFast ==
    /\ ~prior_mod.transformed.made
    /\ \E c \in CombinedClasses(prior_mod.classes) :
       \E fast_standard_params \in
               SUBSET Range(StandardParams(prior_mod.classes, c)) :
       \E direct_params \in {Range(SampledParams(prior_mod.classes, c)
                                   \o ConditionedOn(prior_mod.classes, c))} :
       \E fast \in {Range(get_fast_sampled_params(prior_mod.classes, c,
                                                  fast_standard_params))} :
       \E before \in [direct_params -> Values] :
       \E after \in [direct_params -> Values] :
          /\ \A par \in direct_params \ fast : after[par] = before[par]
          /\ prior_mod' =
                [prior_mod EXCEPT
                    !.defined = NoDefinition,
                    !.transformed =
                        [made |-> TRUE,
                         cls |-> c,
                         fast_standard_params |-> fast_standard_params,
                         fast_sampled_params |-> fast,
                         before |-> before,
                         after |-> after,
                         standard_before |->
                            transform(prior_mod.classes, c, before),
                         standard_after |->
                            transform(prior_mod.classes, c, after)]]
    /\ UNCHANGED <<self, call, n_next, twin, twin_call, resample, workers>>

\* The caller has compared the two results.
TransformReturn ==
    /\ prior_mod.transformed.made
    /\ prior_mod' = [prior_mod EXCEPT !.transformed = NoTransform]
    /\ UNCHANGED <<self, call, n_next, twin, twin_call, resample, workers>>

PriorsNext == DefineClass \/ TransformFast \/ TransformReturn

SpecPriors == PriorsInit /\ [][PriorsNext]_vars

---------------------------------------------------------------------------
(* The explicit per-key cursors of the design notes, next to the cyclic    *)
(* iterators of the source                                                 *)

\* cursor = (cursor + 1) mod bucket_size
ExplicitAdvance(cursor, bucket_size) == (cursor + 1) % bucket_size

\* One provider call per column of columns[j..], in order: the cursor of
\* the column's key is advanced, then bucket[cursor] is returned.
RECURSIVE ExplicitDraw(_, _, _, _, _)
ExplicitDraw(map, cursor, columns, j, drawn) ==
    IF j > Len(columns) THEN [cursor |-> cursor, sky_inds |-> drawn]
    ELSE LET k == columns[j]
             c == ExplicitAdvance(cursor[k], Len(map[k]))
         IN  ExplicitDraw(map, [cursor EXCEPT ![k] = c], columns, j + 1,
                          Append(drawn, map[k][c + 1]))

\* The cursor with which a key's provider may start: the design notes name
\* no initial value, any position of the bucket is one.
CursorStarts(map) ==
    {start \in [DOMAIN map -> 0..(MaxOf({Len(map[k]) : k \in DOMAIN map}) - 1)] :
        \A k \in DOMAIN map : start[k] < Len(map[k])}

\* The explicit providers are set up beside a constructed instance.
ConstructCursors ==
    /\ self.status = "ready"
    /\ twin = None
    /\ \E start \in CursorStarts(self.delays2inds_map) :
          twin' = [start |-> start, cursor |-> start]
    /\ UNCHANGED <<self, call, n_next, twin_call, resample, workers,
                   prior_mod>>

\* The same call served by the source's iterators and by the explicit
\* cursors: the masks and the prior are those of the source, one provider
\* call is made per surviving column.
QueryCursors ==
    /\ self.status = "ready"
    /\ twin # None
    /\ ~call.made
    /\ \E delays \in QueryArrays(self) :
          /\ CallOnSelf(delays)
          /\ \E r \in {ExplicitDraw(self.delays2inds_map, twin.cursor,
                                    call'.generator_reads, 1, <<>>)} :
                /\ twin' = [twin EXCEPT !.cursor = r.cursor]
                /\ twin_call' = [call' EXCEPT !.sky_inds = r.sky_inds]
    /\ UNCHANGED <<resample, workers, prior_mod>>

CursorsNext == Construct \/ ConstructCursors \/ QueryCursors \/ Return

SpecCursors == Init /\ [][CursorsNext]_vars

---------------------------------------------------------------------------
(* Two workers whose provider calls are serialised per key, or who each    *)
(* own a shard of providers                                                *)

MaxAdvances == 2
MaxWorkerEntries == 2

\* "serialized": both workers draw from one provider array and a key's
\* next() runs under that key's lock, as one step. "sharded": a worker
\* draws from a provider array of its own.
ProviderModes == {"serialized", "sharded"}

Shards(mode) == IF mode = "serialized" THEN {0} ELSE Workers
ShardOf(w) == IF twin.mode = "serialized" THEN 0 ELSE w

\* The provider arrays are set up from the constructed instance: each shard
\* holds the cycles of lines 122-126, nothing drawn yet; advances counts
\* the completed next() calls per key.
SetUpProviders ==
    /\ self.status = "ready"
    /\ twin = None
    /\ \E mode \in ProviderModes :
          twin' = [mode |-> mode,
                   shard |-> [s \in Shards(mode) |->
                       [generators |-> self._ind_generators,
                        advances |-> [k \in DOMAIN self.delays2inds_map
                                         |-> 0]]]]
    /\ UNCHANGED <<self, call, n_next, twin_call, resample, workers,
                   prior_mod>>

\* The arrays a worker passes: one or two columns.
WorkerArrays(obj) ==
    {delays \in QueryArrays(obj) : Len(delays) \in 1..MaxWorkerEntries}

\* Lines 207-219 of a call by worker w: the masks and the prior, read from
\* arrays no call writes, and the columns a generator is taken for, which
\* is what the rest of the call works on. A call is let in while its
\* shard has completed fewer than MaxAdvances advances.
SerialEnter(w) ==
    /\ twin # None
    /\ workers[w].pc = "idle"
    /\ SumOver(DOMAIN twin.shard[ShardOf(w)].advances,
               twin.shard[ShardOf(w)].advances) < MaxAdvances
    /\ \E delays \in WorkerArrays(self) :
          \E r \in {get_sky_inds_and_prior(self, delays).result} :
              workers' = [workers EXCEPT ![w] =
                  [pc |-> IF r.generator_reads # <<>> THEN "drawing"
                          ELSE "returned",
                   columns |-> r.generator_reads,
                   sky_inds |-> <<>>,
                   tickets |-> <<>>]]
    /\ UNCHANGED <<self, call, n_next, twin, twin_call, resample, prior_mod>>

\* Line 220, one next() of worker w's call, as a single step: the item at
\* the cursor is taken and the advanced cursor stored. tickets records
\* which advance of its key, counted from the set-up, this one was.
SerialDraw(w) ==
    /\ twin # None
    /\ workers[w].pc = "drawing"
    /\ LET j == Len(workers[w].sky_inds) + 1
           k == workers[w].columns[j]
           cell == Cell(k, Shape(self))
           s == ShardOf(w)
           g == twin.shard[s].generators[cell]
       IN  /\ twin' = [twin EXCEPT
                  !.shard[s].generators[cell] = NextState(g),
                  !.shard[s].advances[k] = @ + 1]
           /\ workers' = [workers EXCEPT ![w] =
                  [@ EXCEPT
                      !.pc = IF j = Len(workers[w].columns) THEN "returned"
                             ELSE "drawing",
                      !.sky_inds = Append(@, NextValue(g)),
                      !.tickets = Append(@, twin.shard[s].advances[k] + 1)]]
    /\ UNCHANGED <<self, call, n_next, twin_call, resample, prior_mod>>

\* Line 221: the call of worker w returns.
SerialLeave(w) ==
    /\ workers[w].pc = "returned"
    /\ workers' = [workers EXCEPT ![w] = IdleWorker]
    /\ UNCHANGED <<self, call, n_next, twin, twin_call, resample, prior_mod>>

SerialNext ==
    \/ Construct
    \/ SetUpProviders
    \/ \E w \in Workers : SerialEnter(w)
    \/ \E w \in Workers : SerialDraw(w)
    \/ \E w \in Workers : SerialLeave(w)

SpecSerial == WorkersInit /\ [][SerialNext]_vars

---------------------------------------------------------------------------
(* Properties                                                              *)

Ready == self.status = "ready"
Returned == call.made /\ ~call.raised

\* The discretized relative delay vector of sample i.
SampleKey(i) == DiscreteColumn(self.delays, self.f_sampling, i)

Populated(k) == k \in DOMAIN self.delays2inds_map
Bucket(k) == self.delays2inds_map[k]

\* The columns of the latest call that physical_mask keeps, in order.
Surviving == Masked(call.delays, call.physical_mask)

OutOfRange(column) ==
    \E d \in DOMAIN column :
        \/ column[d] < self._min_delay[d]
        \/ column[d] > self._max_delay[d]

\* C1: every sample index a call returns for a surviving query has that
\* query's column as its own discretized delay vector, and is a member of
\* the bucket of that key.
C1_ReturnedSampleHasQueriedDelays ==
    Returned =>
        \A surv \in {Surviving} : \A j \in DOMAIN call.sky_inds :
            /\ j \in DOMAIN surv
            /\ call.sky_inds[j] \in 0..(self.nsky - 1)
            /\ SampleKey(call.sky_inds[j]) = surv[j]
            /\ Populated(surv[j])
            /\ call.sky_inds[j] \in Range(Bucket(surv[j]))

\* A call returned a sample for a negative delay (numpy wraps the index)
\* next to one for a non-negative delay.
C1_Witness ==
    /\ Returned
    /\ Len(call.sky_inds) = 2
    /\ Surviving[1][1] < 0
    /\ Surviving[2][1] >= 0

\* C2: physical_mask is True exactly for the columns whose key is populated;
\* a column inside the delay range whose key has no sample is masked out
\* without an error and adds nothing to sky_inds or sky_prior.
C2_MaskIffPopulated ==
    call.made =>
        /\ ~call.raised
        /\ DOMAIN call.physical_mask = DOMAIN call.delays
        /\ \A j \in DOMAIN call.delays :
              call.physical_mask[j] <=> Populated(call.delays[j])
        /\ Len(call.sky_inds) =
              Cardinality({j \in DOMAIN call.delays :
                              Populated(call.delays[j])})
        /\ Len(call.sky_prior) = Len(call.sky_inds)

\* A call carried a column inside the range in every component whose key no
\* sample has, next to a populated one.
C2_Witness ==
    /\ Returned
    /\ \E j \in DOMAIN call.delays :
          /\ ~OutOfRange(call.delays[j])
          /\ ~Populated(call.delays[j])
          /\ ~call.physical_mask[j]
    /\ Len(call.sky_inds) = 1

\* C3: a column with a component below the recorded minimum or above the
\* recorded maximum is masked out, and its key indexes neither dense array.
C3_OutOfRangeNeverIndexed ==
    call.made =>
        \A j \in DOMAIN call.delays :
            OutOfRange(call.delays[j]) =>
                /\ ~call.raised
                /\ ~call.physical_mask[j]
                /\ call.delays[j] \notin Range(call.prior_reads)
                /\ call.delays[j] \notin Range(call.generator_reads)

\* A call carried a column above the range and a column below it.
C3_Witness ==
    /\ Returned
    /\ \E j \in DOMAIN call.delays :
          \E d \in DOMAIN call.delays[j] :
              call.delays[j][d] > self._max_delay[d]
    /\ \E j \in DOMAIN call.delays :
          \E d \in DOMAIN call.delays[j] :
              call.delays[j][d] < self._min_delay[d]

\* C4: physical_mask has one entry per column; sky_inds and sky_prior have
\* one entry per True entry of physical_mask, and their j-th entries belong
\* to the j-th column that physical_mask keeps.
C4_OutputsAligned ==
    Returned =>
        /\ Len(call.physical_mask) = Len(call.delays)
        /\ Len(call.sky_inds) =
              CountTrue(call.physical_mask, Len(call.physical_mask))
        /\ Len(call.sky_prior) = Len(call.sky_inds)
        /\ \A surv \in {Surviving} : \A j \in DOMAIN surv :
              /\ Populated(surv[j])
              /\ call.sky_inds[j] \in Range(Bucket(surv[j]))
              /\ RatEq(call.sky_prior[j],
                       <<Pow(self.f_sampling, Len(self.detector_names) - 1)
                             * Len(Bucket(surv[j])),
                         self.nsky>>)

\* A call kept its second column and dropped its first.
C4_Witness ==
    /\ Returned
    /\ Len(call.delays) = 2
    /\ ~call.physical_mask[1]
    /\ call.physical_mask[2]
    /\ Len(call.sky_inds) = 1

\* The surviving columns before the j-th one that carry the same key.
EarlierSame(surv, j) ==
    Cardinality({i \in 1..(j - 1) : surv[i] = surv[j]})

\* C5: every bucket lists its samples in ascending order without repeats,
\* and counting from construction the m-th surviving query with a key gets
\* bucket member number ((m - 1) mod k) + 1: the k members in order, then
\* the first again. n_next[key] is the number of surviving queries with the
\* key so far, mod k, so the j-th survivor of the latest call is query
\* number n_next[key] - (survivors of the call with the key) + (those
\* before j) + 1, mod k.
C5_RoundRobinFromFirst ==
    Ready =>
        /\ \A k \in DOMAIN self.delays2inds_map :
              \A a, b \in DOMAIN Bucket(k) :
                  a < b => Bucket(k)[a] < Bucket(k)[b]
        /\ Returned =>
              \A surv \in {Surviving} : \A j \in DOMAIN surv :
                  /\ Populated(surv[j])
                  /\ j \in DOMAIN call.sky_inds
                  /\ call.sky_inds[j] =
                        Bucket(surv[j])[
                            ((n_next[surv[j]] - Served(call, surv[j])
                                  + EarlierSame(surv, j))
                              % Len(Bucket(surv[j]))) + 1]

\* A bucket of two, of which an earlier call took the first member: the
\* latest call asked for the key twice and got the second member, then
\* the first again.
C5_Witness ==
    /\ Returned
    /\ Len(Surviving) = 2
    /\ Surviving[1] = Surviving[2]
    /\ Len(Bucket(Surviving[1])) = 2
    /\ call.sky_inds = <<Bucket(Surviving[1])[2], Bucket(Surviving[1])[1]>>

\* C6: the prior returned for a surviving query is
\* f_sampling^(n_det - 1) * bucket_size / nsky for the bucket of its key,
\* a positive number, whatever was queried before.
C6_PriorIsBucketDensity ==
    Returned =>
        \A surv \in {Surviving} :
            /\ Len(call.sky_prior) = Len(surv)
            /\ \A j \in DOMAIN surv :
                  /\ Populated(surv[j])
                  /\ call.sky_prior[j][2] > 0
                  /\ call.sky_prior[j][1] > 0
                  /\ call.sky_prior[j][1] * self.nsky =
                        Pow(self.f_sampling, Len(self.detector_names) - 1)
                            * Len(Bucket(surv[j])) * call.sky_prior[j][2]

\* A call returned the prior of a bucket of two whose cursor had already
\* been advanced by an earlier call, with sampling frequency 2.
C6_Witness ==
    /\ Returned
    /\ self.f_sampling = 2
    /\ \E j \in DOMAIN Surviving :
          /\ Len(Bucket(Surviving[j])) = 2
          /\ call.sky_inds[j] = Bucket(Surviving[j])[2]
          /\ RatEq(call.sky_prior[j],
                   <<Pow(2, Len(self.detector_names) - 1) * 2, self.nsky>>)

\* C7: after construction every sample index lies in the bucket of its own
\* discretized delay vector, in no other bucket, and once in its bucket;
\* the buckets hold nothing but sample indices.
C7_BucketsPartitionSamples ==
    Ready =>
        /\ \A i \in 0..(self.nsky - 1) :
              /\ Populated(SampleKey(i))
              /\ \A k \in DOMAIN self.delays2inds_map :
                    Cardinality({a \in DOMAIN Bucket(k) : Bucket(k)[a] = i})
                        = (IF k = SampleKey(i) THEN 1 ELSE 0)
        /\ \A k \in DOMAIN self.delays2inds_map :
              /\ Bucket(k) # <<>>
              /\ Range(Bucket(k)) \subseteq 0..(self.nsky - 1)

\* An instance of three samples in two buckets, one of them of two.
C7_Witness ==
    /\ Ready
    /\ self.nsky = 3
    /\ Cardinality(DOMAIN self.delays2inds_map) = 2
    /\ \E k \in DOMAIN self.delays2inds_map : Len(Bucket(k)) = 2

\* C8: after construction the bucket sizes add up to nsky, and the dense
\* prior array divided by f_sampling^(n_det - 1) adds up to 1 over its
\* cells.
C8_DensityNormalized ==
    Ready =>
        /\ SumOver(DOMAIN self.delays2inds_map,
                   [k \in DOMAIN self.delays2inds_map |-> Len(Bucket(k))])
              = self.nsky
        /\ RatEq(RatSumOver(DOMAIN self._sky_prior, self._sky_prior),
                 <<Pow(self.f_sampling, Len(self.detector_names) - 1), 1>>)

\* An instance whose dense array has an empty cell, a cell for a negative
\* key and a bucket of two.
C8_Witness ==
    /\ Ready
    /\ \E c \in DOMAIN self._sky_prior : self._sky_prior[c][1] = 0
    /\ \E k \in DOMAIN self.delays2inds_map : k[1] < 0
    /\ \E k \in DOMAIN self.delays2inds_map : Len(Bucket(k)) = 2

\* The attributes fixed by the constructor: all but the cursor positions.
Frozen(obj) ==
    [obj EXCEPT !._ind_generators =
        [c \in DOMAIN obj._ind_generators |-> obj._ind_generators[c].inds]]

\* C9: a call changes no attribute of a constructed instance (samples,
\* antenna coefficients, delays, delay index, delay range, dense prior
\* array, delay-prior table, pairwise bounds, the lists the providers
\* cycle over); only cursor positions differ.
C9_OnlyCursorsMove ==
    [][self.status = "ready" => Frozen(self') = Frozen(self)]_vars

\* A call has moved the cursor of a bucket of two, beside a bucket of one
\* and an empty cell.
C9_Witness ==
    /\ Returned
    /\ \E c \in DOMAIN self._ind_generators :
          self._ind_generators[c].pos # 0
    /\ \E c \in DOMAIN self._ind_generators :
          Len(self._ind_generators[c].inds) = 1
    /\ \E c \in DOMAIN self._ind_generators :
          self._ind_generators[c] = EmptyIter

\* What the constructor derives and what a call returns, for two instances.
SameDerived(a, b) ==
    /\ a.status = b.status
    /\ a.sky_samples = b.sky_samples
    /\ a.fplus_fcross_0 = b.fplus_fcross_0
    /\ a.geocenter_delay_first_det = b.geocenter_delay_first_det
    /\ a.delays = b.delays
    /\ a.delays2inds_map = b.delays2inds_map
    /\ a._sky_prior = b._sky_prior

SameReturns(a, b) ==
    /\ a.made = b.made
    /\ a.raised = b.raised
    /\ a.sky_inds = b.sky_inds
    /\ a.sky_prior = b.sky_prior
    /\ a.physical_mask = b.physical_mask

BothConstructed == self.status = "ready" /\ twin.status # "new"

\* C10: two instances built from identical arguments (detector network,
\* sampling frequency, sample count, seed) derive the same samples, delays,
\* delay index and dense prior array, and return the same from the same
\* calls. The seed ranges over what default_rng accepts, None included.
C10_SameArgumentsSameEngine ==
    BothConstructed =>
        /\ SameDerived(self, twin)
        /\ SameReturns(call, twin_call)

\* The part of C10 the constructor does ensure: the same, for instances
\* built with an integer seed.
C10_SameIntegerSeedSameEngine ==
    (BothConstructed /\ self.seed # None) =>
        /\ self.seed = twin.seed
        /\ SameDerived(self, twin)
        /\ SameReturns(call, twin_call)

\* Two instances with an integer seed and a bucket of two have each served
\* a call that took both members, after an earlier call.
C10_Witness ==
    /\ BothConstructed
    /\ self.seed # None
    /\ call.made
    /\ twin_call.made
    /\ Len(call.sky_inds) = 2
    /\ call.sky_inds[1] > call.sky_inds[2]

\* --- construction errors ---

\* C11: a constructor given a non-positive sample count raises before it
\* has assigned any derived structure.
Failed == self.status \in {"ValueError", "IndexError"}

C11_BadCountFailsBeforeBuilding ==
    (self.status # "new" /\ self.nsky <= 0) =>
        /\ Failed
        /\ self.built = {}

\* --- resampling ---

\* times[1] - times[0] == 1 / f_sampling, as the floats compare.
SpacingIsPeriod(times) ==
    /\ Len(times) >= 2
    /\ FSub(times[2], times[1]) = FDiv(FloatOf(1), FloatOf(self.f_sampling))

\* The spacing of the grid scipy.signal.resample makes of the arguments
\* is 1 / f_sampling within np.isclose's tolerance; a grid of fewer than two
\* samples has no spacing.
ResampledGridMatches ==
    LET num == IntOf(FMul(FloatOf(Len(resample.arg_times)),
                          FMul(FloatOf(self.f_sampling),
                               FSub(resample.arg_times[2],
                                    resample.arg_times[1]))))
        grid == SignalResample(resample.arg_timeseries, num,
                               resample.arg_times).times
    IN  /\ num >= 2
        /\ IsClose(FDiv(FloatOf(1), FloatOf(self.f_sampling)),
                   FSub(grid[2], grid[1]))

\* C12: a call whose data are not spaced by 1 / f_sampling, and whose
\* resampled grid is not spaced by 1 / f_sampling within tolerance, raises
\* ValueError and returns nothing.
C12_MismatchRaisesValueError ==
    (/\ resample.made
     /\ ~SpacingIsPeriod(resample.arg_times)
     /\ ~ResampledGridMatches) =>
        /\ resample.raised = Some("ValueError")
        /\ resample.timeseries = None
        /\ resample.times = None

\* C13: without a window, a call on data spaced by 1 / f_sampling, and a
\* call on the pair an earlier call returned, raises nothing and returns
\* its arguments.
C13_ResampleIsIdentityAtOwnRate ==
    (/\ resample.made
     /\ resample.window = None
     /\ resample.again \/ SpacingIsPeriod(resample.arg_times)) =>
        /\ resample.raised = None
        /\ resample.timeseries = resample.arg_timeseries
        /\ resample.times = resample.arg_times

\* --- two threads ---

\* Both threads have returned from a call with the same populated key, on
\* an instance no other call has touched.
BothDrewFrom(k) ==
    \A w \in Workers :
        /\ workers[w].pc = "returned"
        /\ workers[w].delays = <<k>>
        /\ workers[w].physical_mask = <<TRUE>>

SharedGenerator(k) == self._ind_generators[Cell(k, Shape(self))]

\* C14: when two unsynchronised threads query the same populated key,
\* either their draws were serialised (they hold the first two members of
\* the cycle and the cursor has advanced twice) or they interleaved: both
\* hold the first member and the cursor has advanced once, so the second
\* member is handed out next, after the first was handed out twice.
C14_InterleavedDrawsLoseAnUpdate ==
    \A k \in (IF self.status = "ready" THEN DOMAIN self.delays2inds_map
              ELSE {}) :
        BothDrewFrom(k) =>
            LET size == Len(Bucket(k))
                first == <<Bucket(k)[1]>>
                second == <<Bucket(k)[(1 % size) + 1]>>
                pos == SharedGenerator(k).pos
            IN  \/ /\ workers[1].sky_inds = first
                   /\ workers[2].sky_inds = first
                   /\ pos = 1 % size
                \/ /\ {workers[1].sky_inds, workers[2].sky_inds}
                          = {first, second}
                   /\ pos = 2 % size

\* The lost update: both threads hold the first member of a bucket of two
\* or more, and the cursor has advanced once.
C14_Witness ==
    /\ self.status = "ready"
    /\ \E k \in DOMAIN self.delays2inds_map :
          /\ BothDrewFrom(k)
          /\ Len(Bucket(k)) >= 2
          /\ workers[1].sky_inds = workers[2].sky_inds
          /\ SharedGenerator(k).pos = 1

\* --- combined priors ---

\* The latest operation was a pair of transform calls that both returned.
Transformed ==
    /\ prior_mod.transformed.made
    /\ ~prior_mod.transformed.standard_before.raised
    /\ ~prior_mod.transformed.standard_after.raised

\* The standard parameters whose values differ between the two results.
Moved ==
    {par \in DOMAIN prior_mod.transformed.standard_before.dic :
        prior_mod.transformed.standard_before.dic[par]
            # prior_mod.transformed.standard_after.dic[par]}

\* C15: for every CombinedPrior, subpriors conditioned on one another's
\* standard parameters included, and every set F of fast standard
\* parameters, changing only the sampled parameters that
\* get_fast_sampled_params(F) returns changes, through transform, only
\* standard parameters that belong to F.
C15_FastUpdateChangesOnlyFastStandardParams ==
    Transformed => Moved \subseteq prior_mod.transformed.fast_standard_params

\* --- prior_registry ---

InheritsMixinBeforePrior(mro) ==
    check_inheritance_order(mro, "RegisteredPriorMixin", "Prior") = "ok"

\* Every entry of prior_registry is a class that inherits
\* RegisteredPriorMixin before Prior and is conditioned on nothing.
RegistryHoldsFinalPriors ==
    \A name \in DOMAIN prior_mod.prior_registry :
        LET cls == prior_mod.prior_registry[name]
            env == (name :> cls) @@ prior_mod.classes
        IN  /\ InheritsMixinBeforePrior(cls.mro)
            /\ GetAttr(env, cls.mro, "conditioned_on") = <<>>

\* The latest class statement made a subclass of RegisteredPriorMixin.
DefinedRegisteredSubclass ==
    /\ prior_mod.defined.made
    /\ prior_mod.defined.linearized
    /\ prior_mod.defined.registered_mixin

RegistryUnchanged ==
    prior_mod.prior_registry = prior_mod.defined.registry_before

\* C16: after any sequence of class definitions prior_registry maps a name
\* to a class only if the class inherits RegisteredPriorMixin before Prior
\* and has an empty conditioned_on; defining a RegisteredPriorMixin
\* subclass in the wrong inheritance order raises PriorError, defining one
\* that still has conditioned-on parameters raises ConditionedPriorError,
\* and both leave prior_registry unchanged.
C16_RegistryHoldsOnlyValidatedPriors ==
    /\ RegistryHoldsFinalPriors
    /\ DefinedRegisteredSubclass =>
          /\ prior_mod.defined.order # "ok" =>
                /\ prior_mod.defined.status = "PriorError"
                /\ RegistryUnchanged
          /\ (prior_mod.defined.order = "ok"
                  /\ prior_mod.defined.conditioned_on # <<>>) =>
                /\ prior_mod.defined.status = "ConditionedPriorError"
                /\ RegistryUnchanged

\* --- dense arrays ---

\* The constructor has run on a network of two or more detectors and one
\* or more samples.
ConstructedFromSamples ==
    /\ self.status # "new"
    /\ Len(self.detector_names) >= 2
    /\ self.nsky >= 1

\* The keys inside the delay range.
RangeKeys ==
    {k \in [DOMAIN self._min_delay ->
               MinOf(Range(self._min_delay))..MaxOf(Range(self._max_delay))] :
        ~OutOfRange(k)}

\* C17: for every sample population, those whose delay range does not
\* contain 0 in some dimension included, construction succeeds; every key
\* inside the delay range addresses an in-bounds cell of the dense arrays,
\* distinct keys address distinct cells, the cell of a populated key holds
\* that key's prior value and the cycle over that key's bucket, and every
\* other cell holds zero and the empty iterator.
C17_DenseArraysCoverDelayRange ==
    ConstructedFromSamples =>
        /\ Ready
        /\ \A k \in RangeKeys :
              /\ CellOk(k, Shape(self))
              /\ \A other \in RangeKeys \ {k} :
                    Cell(other, Shape(self)) # Cell(k, Shape(self))
              /\ IF Populated(k)
                 THEN /\ self._ind_generators[Cell(k, Shape(self))].inds
                            = Bucket(k)
                      /\ self._sky_prior[Cell(k, Shape(self))]
                            = PriorValue(self.f_sampling,
                                         Len(self.detector_names),
                                         Bucket(k), self.nsky)
                 ELSE /\ self._ind_generators[Cell(k, Shape(self))].inds
                            = <<>>
                      /\ self._sky_prior[Cell(k, Shape(self))][1] = 0

\* --- the empty iterator ---

\* The generator the instance stores for column.
StoredGenerator(column) == self._ind_generators[Cell(column, Shape(self))]

\* C18: get_sky_inds_and_prior never calls next() on the empty iterator of
\* an unpopulated cell: every generator it advances cycles over a bucket
\* that is not empty, so none is exhausted and every surviving query
\* receives a sample index.
C18_EmptyIteratorNeverAdvanced ==
    Returned =>
        /\ \A j \in DOMAIN call.generator_reads :
              StoredGenerator(call.generator_reads[j]).inds # <<>>
        /\ Len(call.sky_inds) = Len(call.generator_reads)
        /\ Len(call.sky_inds)
              = CountTrue(call.physical_mask, Len(call.physical_mask))

\* A call returned for a batch with a column inside the delay range whose
\* cell holds the empty iterator, next to a column that survived.
C18_Witness ==
    /\ Returned
    /\ call.sky_inds # <<>>
    /\ \E j \in DOMAIN call.delays :
          /\ ~OutOfRange(call.delays[j])
          /\ StoredGenerator(call.delays[j]).inds = <<>>
          /\ ~call.physical_mask[j]

\* --- detector networks ---

\* The constructor has run on one or more samples.
ConstructedWithSamples ==
    /\ self.status # "new"
    /\ self.nsky >= 1

\* C19: for every detector network of one or more detectors, a single
\* detector included, construction completes, every key of the delay index
\* has n_det - 1 components, and the key of every sample is in the index.
C19_EveryNetworkConstructs ==
    ConstructedWithSamples =>
        /\ Ready
        /\ \A k \in DOMAIN self.delays2inds_map :
              Len(k) = Len(self.detector_names) - 1
        /\ \A i \in 0..(self.nsky - 1) :
              /\ Populated(SampleKey(i))
              /\ i \in Range(Bucket(SampleKey(i)))

\* --- histogram weights ---

\* The cube of the Euclidean norm of a sample's antenna coefficients over
\* the detectors dets (0-based indices into the network).
NormCubedOver(coeffs, dets) ==
    Pow(Sqrt(SumSeq([a \in DOMAIN dets |->
                        coeffs[dets[a] + 1][1] * coeffs[dets[a] + 1][1]
                        + coeffs[dets[a] + 1][2] * coeffs[dets[a] + 1][2]])),
        3)

\* The histogram of a detector order in which sample i enters with the
\* weight NormCubedOver(its coefficients, dets).
HistogramWeightedOver(order, dets) ==
    Histogram(PairwiseDelays(get_geocenter_delays(self.detector_names,
                                                  self.sky_samples),
                             order, self.f_sampling, self.nsky),
              [i \in 0..(self.nsky - 1) |->
                  NormCubedOver(self.fplus_fcross_0[i], dets)],
              self.nsky)

WholeNetwork == [d \in 1..Len(self.detector_names) |-> d - 1]

\* The constructor has assigned delays_prior (line 115), whether or not it
\* went on to completion.
DelaysPriorBuilt ==
    /\ self.status # "new"
    /\ "delays_prior" \in self.built

\* C20: for every permutation of k detectors, 2 <= k <= n_det, the weight
\* with which a sample enters the permutation's histogram of delays_prior
\* is the cube of the norm of its antenna coefficients over the detectors
\* of that permutation only.
C20_WeightOverPermutationOnly ==
    DelaysPriorBuilt =>
        \A order \in DOMAIN self.delays_prior :
            self.delays_prior[order] = HistogramWeightedOver(order, order)

\* What the constructor ensures in place of C20: a sample enters the
\* histogram of every permutation with the cube of the norm of its
\* antenna coefficients over all detectors of the network.
C20_WeightOverWholeNetwork ==
    DelaysPriorBuilt =>
        \A order \in DOMAIN self.delays_prior :
            self.delays_prior[order]
                = HistogramWeightedOver(order, WholeNetwork)

\* A network of three detectors is built, and for a pair of them some
\* sample's norm over the pair differs from its norm over the network.
C20_Witness ==
    /\ Ready
    /\ Len(self.detector_names) = 3
    /\ \E order \in DOMAIN self.delays_prior :
          /\ Len(order) = 2
          /\ \E i \in 0..(self.nsky - 1) :
                NormCubedOver(self.fplus_fcross_0[i], order)
                    # NormCubedOver(self.fplus_fcross_0[i], WholeNetwork)

\* --- histogram bins ---

\* The discretized delays of a detector order, per sample, recomputed from
\* the instance's samples.
PairwiseDelaysOf(order) ==
    PairwiseDelays(get_geocenter_delays(self.detector_names, self.sky_samples),
                   order, self.f_sampling, self.nsky)

\* The weight of each sample.
SampleWeights == [i \in 0..(self.nsky - 1) |-> Weight(self.fplus_fcross_0[i])]

\* The observed minimum and maximum of dimension d of the delays pd.
ObservedMin(pd, d) == MinOf({pd[i][d] : i \in DOMAIN pd})
ObservedMax(pd, d) == MaxOf({pd[i][d] : i \in DOMAIN pd})

\* C21: for every permutation of delays_prior the histogram has
\* max - min + 1 bins per dimension, min and max being the observed
\* discretized delays of that dimension; the bin at offset d - min holds
\* the sum of the weights of exactly the samples whose discretized delay
\* vector is d; and the histogram sums to the sum of all sample weights.
C21_HistogramBinsAtIntegerCentres ==
    DelaysPriorBuilt =>
        \A weights \in {SampleWeights} :
        \A order \in DOMAIN self.delays_prior :
        \A pd \in {PairwiseDelaysOf(order)} :
        \A hist \in {self.delays_prior[order]} :
        \A lo \in {[d \in 1..(Len(order) - 1) |-> ObservedMin(pd, d)]} :
        \A hi \in {[d \in 1..(Len(order) - 1) |-> ObservedMax(pd, d)]} :
            /\ DOMAIN hist
                  = Cells([d \in DOMAIN lo |-> hi[d] - lo[d] + 1])
            /\ \A c \in DOMAIN hist :
                  hist[c] = SumOver({i \in DOMAIN pd :
                                       pd[i] = [d \in DOMAIN lo |->
                                                   c[d] + lo[d]]},
                                    weights)
            /\ SumOver(DOMAIN hist, hist) = SumOver(DOMAIN pd, weights)

\* A three-detector network is built whose histogram of some permutation
\* has a bin that collects two samples, a bin that collects one, and an
\* empty bin.
C21_Witness ==
    /\ Ready
    /\ \E order \in DOMAIN self.delays_prior :
          LET pd == PairwiseDelaysOf(order)
              hist == self.delays_prior[order]
          IN  /\ Len(order) = 3
              /\ \E c \in DOMAIN hist : hist[c] = 0
              /\ \E i, j \in DOMAIN pd : i # j /\ pd[i] = pd[j]
              /\ \E i, j \in DOMAIN pd : pd[i] # pd[j]

\* --- table keys ---

\* The ordered selections of k distinct detector indices of the instance's
\* network.
OrderedSelections(k) ==
    {p \in [1..k -> 0..(Len(self.detector_names) - 1)] :
        Cardinality(Range(p)) = k}

\* C22: once the tables are built, the keys of delays_prior are exactly the
\* ordered selections of k distinct detector indices for every k from 2 to
\* n_det, the histogram under a key of length k has k - 1 dimensions, and
\* the keys of delays_bounds are exactly the ordered pairs of distinct
\* detector indices.
C22_TableKeysAreAllPermutations ==
    DelaysPriorBuilt =>
        /\ DOMAIN self.delays_prior
              = UNION {OrderedSelections(k) :
                          k \in 2..Len(self.detector_names)}
        /\ \A order \in DOMAIN self.delays_prior :
              /\ DOMAIN self.delays_prior[order] # {}
              /\ \A c \in DOMAIN self.delays_prior[order] :
                    Len(c) = Len(order) - 1
        /\ DOMAIN self.delays_bounds = OrderedSelections(2)

\* A three-detector network is built: the tables hold keys of two and of
\* three detectors, in decreasing order as well.
C22_Witness ==
    /\ Ready
    /\ Len(self.detector_names) = 3
    /\ <<2, 0, 1>> \in DOMAIN self.delays_prior
    /\ <<2, 1>> \in DOMAIN self.delays_prior
    /\ <<1, 0>> \in DOMAIN self.delays_bounds

\* --- pairwise bounds ---

\* The discretized delay of detector j relative to detector i (0-based
\* indices into the network) for sample s.
RelativeDelay(i, j, s) ==
    _discretize(GeocenterDelayTable[self.detector_names[j + 1]]
                                   [self.sky_samples[s]]
                - GeocenterDelayTable[self.detector_names[i + 1]]
                                     [self.sky_samples[s]],
                self.f_sampling)

ReturnedFromBoth == Returned /\ twin # None /\ twin_call.made

\* Every explicit cursor started on the last position of its bucket.
CursorsStartedAtEnd ==
    \A k \in DOMAIN twin.start :
        twin.start[k] = Len(self.delays2inds_map[k]) - 1

\* C24: the explicit cursors (advance, then return bucket[cursor]) return
\* in every call of every sequence of calls the sample indices the
\* source's cyclic iterators return; the first query of a key returns the
\* first-inserted member of its bucket in both.
C24_ExplicitCursorsMatchIterators ==
    ReturnedFromBoth => twin_call.sky_inds = call.sky_inds

\* What holds in place of C24: the explicit cursors return the samples of
\* the source's iterators in every call when every cursor starts on the
\* last position of its bucket (bucket_size - 1, so that the first advance
\* lands on the first-inserted member).
C24_CursorsFromEndMatchIterators ==
    (ReturnedFromBoth /\ CursorsStartedAtEnd) =>
        twin_call.sky_inds = call.sky_inds

\* Cursors that started on the last position have served a call in which
\* a bucket of two or more samples was drawn from twice.
C24_Witness ==
    /\ ReturnedFromBoth
    /\ CursorsStartedAtEnd
    /\ \E i, j \in DOMAIN call.generator_reads :
          /\ i < j
          /\ call.generator_reads[i] = call.generator_reads[j]
          /\ Len(Bucket(call.generator_reads[i])) >= 2

\* --- serialised and sharded providers ---

\* The draws the workers' current calls have completed on shard s:
\* <<key, ticket, sample>>.
CompletedDraws(s) ==
    UNION {{<<workers[w].columns[j], workers[w].tickets[j],
              workers[w].sky_inds[j]>> : j \in DOMAIN workers[w].sky_inds} :
              w \in {v \in Workers : workers[v].pc # "idle" /\ ShardOf(v) = s}}

\* C25: with each key's cursor serialised, or each worker on its own shard,
\* in every interleaving of the workers' calls the m-th completed advance
\* of a key returns bucket[(m - 1) mod bucket_size]; no advance is lost
\* (the stored cursor stands at the number of completed advances, and no
\* two draws are the same advance); and two advances of one cycle return
\* different members.
C25_SerializedDrawsAreRoundRobin ==
    twin # None =>
        \A s \in DOMAIN twin.shard :
            /\ \A k \in DOMAIN self.delays2inds_map :
                  twin.shard[s].generators[Cell(k, Shape(self))].pos
                      = twin.shard[s].advances[k] % Len(Bucket(k))
            /\ \A d \in CompletedDraws(s) :
                  d[3] = Bucket(d[1])[((d[2] - 1) % Len(Bucket(d[1]))) + 1]
            /\ \A d, e \in CompletedDraws(s) :
                  (d[1] = e[1] /\ d[2] # e[2]
                   /\ (d[2] - 1) \div Len(Bucket(d[1]))
                          = (e[2] - 1) \div Len(Bucket(d[1])))
                      => d[3] # e[3]
            /\ \A v, w \in Workers :
                  (v # w /\ workers[v].pc # "idle" /\ workers[w].pc # "idle"
                   /\ ShardOf(v) = s /\ ShardOf(w) = s) =>
                      \A i \in DOMAIN workers[v].tickets,
                         j \in DOMAIN workers[w].tickets :
                          workers[v].columns[i] = workers[w].columns[j]
                              => workers[v].tickets[i] # workers[w].tickets[j]

\* Under serialised access the two workers' calls interleaved on a bucket
\* of two or more samples: one worker drew, then the other, then the first
\* again.
C25_Witness ==
    /\ twin # None
    /\ twin.mode = "serialized"
    /\ \E v, w \in Workers :
          /\ v # w
          /\ workers[v].pc # "idle"
          /\ workers[w].pc # "idle"
          /\ \E i, j \in DOMAIN workers[v].tickets,
                l \in DOMAIN workers[w].tickets :
                /\ workers[v].columns[i] = workers[w].columns[l]
                /\ workers[v].columns[j] = workers[w].columns[l]
                /\ Len(Bucket(workers[w].columns[l])) >= 2
                /\ workers[v].tickets[i] < workers[w].tickets[l]
                /\ workers[w].tickets[l] < workers[v].tickets[j]

\* Each worker on its own shard has drawn from the same bucket of two or
\* more samples, and both received its first member.
C25_ShardedWitness ==
    /\ twin # None
    /\ twin.mode = "sharded"
    /\ \A w \in Workers :
          /\ workers[w].pc # "idle"
          /\ workers[w].tickets # <<>>
    /\ workers[1].columns[1] = workers[2].columns[1]
    /\ Len(Bucket(workers[1].columns[1])) >= 2
    /\ workers[1].sky_inds[1] = workers[2].sky_inds[1]

\* --- advances per call ---

\* The queries of a returned call that survived and address cell c.
SurvivorsAt(result, c) ==
    Cardinality({j \in DOMAIN result.delays :
                    /\ result.physical_mask[j]
                    /\ Cell(result.delays[j], Shape(self)) = c})

\* C26: every call on a constructed instance completes, whatever the
\* batch, with one sample index per surviving query; the cursor of every
\* cell has moved on by the number of surviving queries that address it,
\* so a rejected query advances nothing and the advances of the call are
\* as many as the True entries of physical_mask.
C26_OneAdvancePerSurvivingQuery ==
    [][(self.status = "ready" /\ ~call.made /\ call'.made) =>
          /\ ~call'.raised
          /\ Len(call'.physical_mask) = Len(call'.delays)
          /\ Len(call'.sky_inds)
                = CountTrue(call'.physical_mask, Len(call'.physical_mask))
          /\ \A c \in DOMAIN self._ind_generators :
                LET g == self._ind_generators[c]
                    h == self'._ind_generators[c]
                IN  IF g.inds = <<>> THEN h = g /\ SurvivorsAt(call', c) = 0
                    ELSE h.pos = (g.pos + SurvivorsAt(call', c))
                                     % Len(g.inds)]_vars

\* A call returned for a batch of three in which one query was rejected
\* and two survived on the same bucket of two or more samples.
C26_Witness ==
    /\ Returned
    /\ Len(call.delays) = 3
    /\ CountTrue(call.physical_mask, 3) = 2
    /\ \E i, j \in DOMAIN call.delays :
          /\ i # j
          /\ call.physical_mask[i]
          /\ call.physical_mask[j]
          /\ call.delays[i] = call.delays[j]
          /\ Len(Bucket(call.delays[i])) >= 2

\* --- cursors per key ---

\* The cursor position of the provider of populated key k in instance obj.
CursorOf(obj, k) == obj._ind_generators[Cell(k, Shape(obj))].pos

\* The positions, among the surviving queries of a call, of those with key
\* k, in order.
RECURSIVE PositionsOf(_, _, _)
PositionsOf(surv, k, j) ==
    IF j > Len(surv) THEN <<>>
    ELSE (IF surv[j] = k THEN <<j>> ELSE <<>>) \o PositionsOf(surv, k, j + 1)

\* C29: construction leaves every key's cursor on the first member of its
\* bucket, and a call that finds the cursor of key K at position p hands
\* its surviving queries with key K, in order, the members p, p + 1, ...
\* of the bucket (cyclically), moves the cursor of K on by their number
\* and leaves the cursor of every other key where it was, whatever else
\* the batch holds. So the m-th surviving query with key K since
\* construction gets bucket_K[(m - 1) mod |bucket_K|] however the queries
\* are batched: the cursor always stands at the number of surviving
\* queries with key K so far, modulo the bucket size.
C29_CallAdvancesOnlyServedKeys ==
    [][self'.status = "ready" =>
          \A k \in DOMAIN self'.delays2inds_map :
              /\ CursorOf(self', k) = n_next'[k]
              /\ self.status = "new" => CursorOf(self', k) = 0
              /\ (self.status = "ready" /\ ~call.made /\ call'.made) =>
                    \A own \in {PositionsOf(call'.generator_reads, k, 1)} :
                        /\ Len(own) = Served(call', k)
                        /\ CursorOf(self', k)
                              = (CursorOf(self, k) + Len(own))
                                    % Len(self.delays2inds_map[k])
                        /\ \A i \in DOMAIN own :
                              call'.sky_inds[own[i]]
                                  = self.delays2inds_map[k][
                                        ((CursorOf(self, k) + i - 1)
                                           % Len(self.delays2inds_map[k]))
                                        + 1]]_vars

\* A later call served key K once, between a query of another populated
\* key and a rejected one, and handed it the last member of its bucket of
\* two or more samples: the earlier members went out in earlier calls.
C29_Witness ==
    /\ Returned
    /\ Len(call.delays) = 3
    /\ \E k \in DOMAIN self.delays2inds_map :
          /\ Served(call, k) = 1
          /\ Len(Bucket(k)) >= 2
          /\ CursorOf(self, k) = 0
          /\ \E j \in DOMAIN call.generator_reads :
                /\ call.generator_reads[j] = k
                /\ call.sky_inds[j] = Bucket(k)[Len(Bucket(k))]
          /\ \E j \in DOMAIN call.generator_reads :
                call.generator_reads[j] # k
    /\ CountTrue(call.physical_mask, 3) = 2

\* --- combining prior classes ---

\* The latest operation was the definition of a CombinedPrior subclass
\* whose body lists prior_classes.
DefinedCombined ==
    /\ prior_mod.defined.made
    /\ prior_mod.defined.prior_classes # <<>>

DefinedCombinedOk == DefinedCombined /\ prior_mod.defined.status = "ok"

\* The standard parameters and the conditioned-on parameters of the i-th
\* of the prior classes listed.
Produces(i) ==
    Range(StandardParams(prior_mod.classes, prior_mod.defined.prior_classes[i]))
Requires(i) ==
    Range(ConditionedOn(prior_mod.classes, prior_mod.defined.prior_classes[i]))

\* Some listed prior class is conditioned on a parameter that itself or a
\* later one produces.
ProducedTooLate ==
    \E i \in DOMAIN prior_mod.defined.prior_classes :
        \E k \in i..Len(prior_mod.defined.prior_classes) :
            Requires(i) \cap Produces(k) # {}

\* C27: the definition of a CombinedPrior subclass raises PriorError
\* whenever a class of prior_classes is conditioned on a standard parameter
\* of itself or of a class after it in the list; where the definition
\* succeeds, every conditioned-on parameter produced inside the combination
\* is produced by a strictly earlier class.
C27_LateProducerRaisesPriorError ==
    DefinedCombined =>
        /\ ProducedTooLate => prior_mod.defined.status = "PriorError"
        /\ prior_mod.defined.status = "ok" =>
              \A i \in DOMAIN prior_mod.defined.prior_classes :
                  \A par \in Requires(i) :
                      (\E k \in DOMAIN prior_mod.defined.prior_classes :
                          par \in Produces(k))
                      => \E k \in 1..(i - 1) : par \in Produces(k)

\* --- repeated parameters ---

\* The sampled parameters of the i-th of the prior classes listed.
Samples(i) ==
    Range(SampledParams(prior_mod.classes, prior_mod.defined.prior_classes[i]))

\* Two of the prior classes listed share a sampled parameter, or share a
\* standard parameter.
SharedParameter ==
    \E i, k \in DOMAIN prior_mod.defined.prior_classes :
        /\ i # k
        /\ \/ Samples(i) \cap Samples(k) # {}
           \/ Produces(i) \cap Produces(k) # {}

\* The lists of the prior classes, one after the other.
ListedSampledParams ==
    Concat([i \in DOMAIN prior_mod.defined.prior_classes |->
               SampledParams(prior_mod.classes,
                             prior_mod.defined.prior_classes[i])])
ListedStandardParams ==
    Concat([i \in DOMAIN prior_mod.defined.prior_classes |->
               StandardParams(prior_mod.classes,
                              prior_mod.defined.prior_classes[i])])

NoDuplicates(s) == Cardinality(Range(s)) = Len(s)

\* C28: the definition of a CombinedPrior subclass raises PriorError
\* whenever two classes of prior_classes share a sampled parameter or
\* share a standard parameter; the sampled_params and the standard_params
\* of every CombinedPrior subclass that was defined are the lists of its
\* prior classes one after the other, in the order of prior_classes, with
\* no parameter twice.
C28_SharedParameterRaisesPriorError ==
    DefinedCombined =>
        /\ SharedParameter => prior_mod.defined.status = "PriorError"
        /\ prior_mod.defined.status = "ok" =>
              /\ SampledParams(prior_mod.classes, prior_mod.defined.name)
                    = ListedSampledParams
              /\ StandardParams(prior_mod.classes, prior_mod.defined.name)
                    = ListedStandardParams
              /\ NoDuplicates(ListedSampledParams)
              /\ NoDuplicates(ListedStandardParams)

\* --- conditioned-on parameters of a combination ---

\* The conditioned-on parameters of the prior classes listed that none of
\* them produces, in the order of the list.
ListedConditionedOn ==
    SelectSeq(Concat([i \in DOMAIN prior_mod.defined.prior_classes |->
                         ConditionedOn(prior_mod.classes,
                                       prior_mod.defined.prior_classes[i])]),
              LAMBDA par :
                  \A k \in DOMAIN prior_mod.defined.prior_classes :
                      par \notin Produces(k))

\* C30: the conditioned_on of every CombinedPrior subclass that was defined
\* holds exactly the conditioned-on parameters of its prior classes that
\* none of them produces; and a transform call on an instance of a
\* combined prior, given a value for each of its sampled_params and
\* conditioned_on, returns: every subprior finds its sampled and
\* conditioned-on parameters in the dictionary when its turn comes, and no
\* lookup raises KeyError.
C30_SubpriorsFindTheirParameters ==
    /\ DefinedCombinedOk =>
          ConditionedOn(prior_mod.classes, prior_mod.defined.name)
              = ListedConditionedOn
    /\ prior_mod.transformed.made =>
          /\ ~prior_mod.transformed.standard_before.raised
          /\ ~prior_mod.transformed.standard_after.raised

===========================================================================
